---- MODULE Spec2Model ----
(***************************************************************************)
(* State-machine model of calibration/abb_real_data.py: the ABB contact-   *)
(* seeking data collector (ABBDataCollector and main).                     *)
(*                                                                         *)
(* Units.  Lengths are integers in 0.01 mm (the seek decrement 0.01 mm is  *)
(* 1), forces are integers in 0.01 N (max_force -1 N is -100), speeds are  *)
(* in mm/s.  Python dicts whose iteration order matters (the trajectory    *)
(* library) are sequences of [name, ...] records; dicts that are only      *)
(* looked up by key (the calibration tree) are functions.                  *)
(***************************************************************************)
EXTENDS Integers, Sequences, FiniteSets, TLC

(* ------------------------------ bounds --------------------------------- *)
\* largest number of 0.01 mm downward steps one contact seek may take
MaxDescent == 2
\* largest number of force frames one step sampling reads (data_frames cap)
MaxFrames == 2
\* number of steps of the longest trajectory of the library
MaxSteps == 2

(* ------------------------------ helpers -------------------------------- *)
\* Python None, and a present value, for nullable fields
None == << >>

Some(v) == << v >>

EmptyDict == << >>

Min(a, b) == IF a <= b THEN a ELSE b

Max(a, b) == IF a >= b THEN a ELSE b

\* d[k] = v, as the Python statement
DictSet(d, k, v) == [x \in (DOMAIN d) \cup {k} |-> IF x = k THEN v ELSE d[x]]

\* d.setdefault(k, v): the dict after the call
DictSetDefault(d, k, v) == IF k \in DOMAIN d THEN d ELSE DictSet(d, k, v)

\* d.get(k, dflt)
DictGet(d, k, dflt) == IF k \in DOMAIN d THEN d[k] ELSE dflt

\* a data_frames value of the source, cut to the model's frame bound
Cap(n) == Min(n, MaxFrames)

(* ------------------------- step keys (f-string) ------------------------ *)
RECURSIVE Digits(_)
\* decimal digits of n >= 0, most significant first
Digits(n) == IF n < 10 THEN << n >> ELSE Append(Digits(n \div 10), n % 10)

RECURSIVE ZeroPad(_, _)
\* left-pad a digit sequence with zeros to at least w digits
ZeroPad(ds, w) == IF Len(ds) >= w THEN ds ELSE ZeroPad(<< 0 >> \o ds, w)

\* the step key without the zero padding (f"step_{idx}")
StepKey_unpadded(idx) == << "step_" >> \o Digits(idx)

\* f"step_{idx:03d}"
StepKey(idx) == << "step_" >> \o ZeroPad(Digits(idx), 3)

(* ------------------------ numeric conversions -------------------------- *)
\* a / b rounded to the nearest integer, ties to even (IEEE round-to-nearest)
RoundDiv(a, b) ==
    LET q == a \div b
        r == a % b
    IN  IF 2 * r < b THEN q
        ELSE IF 2 * r > b THEN q + 1
        ELSE IF q % 2 = 0 THEN q ELSE q + 1

RECURSIVE SeqSum(_)
SeqSum(s) == IF s = << >> THEN 0 ELSE Head(s) + SeqSum(Tail(s))

\* np.mean(force_data_list, axis=0): float64 values are the integer grid
np_mean(list) == RoundDiv(SeqSum(list), Len(list))

\* .astype(np.float32): the float32 grid is every second float64 grid point
astype_float32(v) == 2 * RoundDiv(v, 2)

(* --------------------------- configuration ----------------------------- *)
ConfigKeys ==
    { "contact_threshold", "approach_speed", "press_speed", "max_force",
      "data_frames", "frame_interval", "step_settle_time", "safe_offset_mm" }

\* _get_default_config()
get_default_config ==
    [ contact_threshold |-> -2,
      approach_speed    |-> 1,
      press_speed       |-> 8,
      max_force         |-> -100,
      data_frames       |-> Cap(30),
      frame_interval    |-> 1,
      step_settle_time  |-> 3,
      safe_offset_mm    |-> 800 ]

\* a complete operator-supplied YAML config
FullConfigFile ==
    [ contact_threshold |-> -2,
      approach_speed    |-> 2,
      press_speed       |-> 5,
      max_force         |-> -100,
      data_frames       |-> 1,
      frame_interval    |-> 1,
      step_settle_time  |-> 3,
      safe_offset_mm    |-> 500 ]

\* the YAML config with the keys of ks left out
Without(ks) == [k \in ConfigKeys \ ks |-> FullConfigFile[k]]

\* the --config inputs: no file, or a file holding the mapping yaml.safe_load
\* returns
ConfigFiles ==
    { [given |-> FALSE, yaml |-> << >>] } \cup
    { [given |-> TRUE, yaml |-> y] :
        y \in { FullConfigFile,
                Without({"approach_speed"}),
                Without({"max_force"}),
                Without({"press_speed"}),
                Without({"contact_threshold", "safe_offset_mm", "data_frames"}) } }

\* lines 101-105: the config the collector holds
LoadConfig(config_file) ==
    IF config_file.given THEN config_file.yaml ELSE get_default_config

(* ------------------------- trajectory library -------------------------- *)
\* JSON values of traj.json are tagged records: an object is [t |-> "dict",
\* items |-> sequence of [k, v] in file order, keys distinct], an array is
\* [t |-> "list", items |-> sequence], a number is [t |-> "num"], a string is
\* [t |-> "str"].  Numbers inside step entries are plain integers.

JList(s) == [t |-> "list", items |-> s]

JDict(s) == [t |-> "dict", items |-> s]

JNum == [t |-> "num"]

JStr == [t |-> "str"]

KV(k, v) == [k |-> k, v |-> v]

\* obj.keys()
JKeys(obj) == { obj.items[i].k : i \in DOMAIN obj.items }

\* obj.get(k, dflt)
JGet(obj, k, dflt) ==
    IF k \in JKeys(obj)
    THEN obj.items[CHOOSE i \in DOMAIN obj.items : obj.items[i].k = k].v
    ELSE dflt

\* one step as {"x":..,"y":..,"z":..}
XYZ(x, y, z) == [x |-> x, y |-> y, z |-> z]

\* a JSON scalar in a coordinate position: Num(v) is the number v, NotNum a
\* value float() rejects (a non-numeric string, null)
Num(v) == << v >>

NotNum == << >>

\* float(v) of a number; lengths are exact in the model's unit
float(v) == v[1]

\* float(v) raises ValueError / TypeError
FloatRaises(v) == v = NotNum

\* lines 202-209: one list entry raises in float()
EntryRaises(entry) ==
    IF entry.t = "dict"
    THEN \E k \in { "x", "y", "z" } : FloatRaises(JGet(entry, k, Num(0)))
    ELSE IF entry.t = "list" /\ Len(entry.items) = 3
    THEN \E i \in 1..3 : FloatRaises(entry.items[i])
    ELSE FALSE

\* lines 202-209: the steps one list entry contributes (none if it is neither
\* an object nor a 3-element list)
NormalizeEntry(entry) ==
    IF entry.t = "dict"
    THEN << XYZ(float(JGet(entry, "x", Num(0))), float(JGet(entry, "y", Num(0))),
                float(JGet(entry, "z", Num(0)))) >>
    ELSE IF entry.t = "list" /\ Len(entry.items) = 3
    THEN << XYZ(float(entry.items[1]), float(entry.items[2]),
                float(entry.items[3])) >>
    ELSE << >>

RECURSIVE NormalizeEntries(_)
\* lines 200-209: for entry in steps_payload
NormalizeEntries(entries) ==
    IF entries = << >> THEN << >>
    ELSE NormalizeEntry(Head(entries)) \o NormalizeEntries(Tail(entries))

\* lines 211-215: zip(x_seq, y_seq, z_seq)
ZipXYZ(xs, ys, zs) ==
    [i \in 1..Min(Len(xs), Min(Len(ys), Len(zs))) |->
        XYZ(float(xs[i]), float(ys[i]), float(zs[i]))]

\* lines 214-215: a zipped triple raises in float()
ZipRaises(xs, ys, zs) ==
    \E i \in 1..Min(Len(xs), Min(Len(ys), Len(zs))) :
        FloatRaises(xs[i]) \/ FloatRaises(ys[i]) \/ FloatRaises(zs[i])

\* lines 198-215: the step list of one trajectory payload
NormalizeSteps(payload) ==
    IF payload.t = "list" THEN NormalizeEntries(payload.items)
    ELSE IF payload.t = "dict" /\ {"x", "y", "z"} \subseteq JKeys(payload)
    THEN ZipXYZ(JGet(payload, "x", << >>), JGet(payload, "y", << >>),
                JGet(payload, "z", << >>))
    ELSE << >>

\* lines 198-215: normalising one trajectory payload raises
StepsRaise(payload) ==
    IF payload.t = "list"
    THEN \E i \in DOMAIN payload.items : EntryRaises(payload.items[i])
    ELSE IF payload.t = "dict" /\ {"x", "y", "z"} \subseteq JKeys(payload)
    THEN ZipRaises(JGet(payload, "x", << >>), JGet(payload, "y", << >>),
                   JGet(payload, "z", << >>))
    ELSE FALSE

RECURSIVE NormalizeTrajs(_)
\* lines 195-218: obj_trajs, in the file's order, empty step lists dropped
NormalizeTrajs(items) ==
    IF items = << >> THEN << >>
    ELSE LET steps == NormalizeSteps(Head(items).v)
         IN  (IF steps # << >>
              THEN << [name |-> Head(items).k, steps |-> steps] >>
              ELSE << >>) \o NormalizeTrajs(Tail(items))

RECURSIVE NormalizeObjects(_)
\* lines 191-221: normalized, objects left without trajectories dropped
NormalizeObjects(items) ==
    IF items = << >> THEN << >>
    ELSE LET trajs == IF Head(items).v.t = "dict"
                      THEN NormalizeTrajs(Head(items).v.items)
                      ELSE << >>
         IN  (IF trajs # << >>
              THEN << [name |-> Head(items).k, trajs |-> trajs] >>
              ELSE << >>) \o NormalizeObjects(Tail(items))

\* _load_trajectory_config(): file is [state |-> "missing" | "unparseable" |
\* "json", json |-> value]; a parsed top level is a JSON object
load_trajectory_config(file) ==
    IF file.state # "json" THEN << >> ELSE NormalizeObjects(file.json.items)

\* lines 191-215: the loop over the file raises out of _load_trajectory_config
\* (the try of lines 182-187 covers only json.load)
LoadRaises(file) ==
    /\ file.state = "json"
    /\ \E i \in DOMAIN file.json.items :
          /\ file.json.items[i].v.t = "dict"
          /\ \E j \in DOMAIN file.json.items[i].v.items :
                StepsRaise(file.json.items[i].v.items[j].v)

\* _load_available_objects(traj_path): the set of top-level keys
load_available_objects(file) ==
    IF file.state # "json" THEN {}
    ELSE IF file.json.t = "dict" THEN JKeys(file.json)
    ELSE {}

\* trajectory_config.get(object_name, {}): the object's ordered trajectories
Trajectories(cfg, obj) ==
    IF \E i \in DOMAIN cfg : cfg[i].name = obj
    THEN cfg[CHOOSE i \in DOMAIN cfg : cfg[i].name = obj].trajs
    ELSE << >>

(* --------------------------- persistent store -------------------------- *)
\* A calibration tree is a function object -> trajectory -> step key -> record.

\* the (object, trajectory, step) key paths of a tree
KeyPaths(tree) ==
    UNION { UNION { { << o, t, k >> : k \in DOMAIN tree[o][t] } : t \in DOMAIN tree[o] } :
            o \in DOMAIN tree }

\* the value a tree holds at a key path
At(tree, p) == tree[p[1]][p[2]][p[3]]

\* _load_storage(): the file is [kind, data, bad]. kind is "absent", "unreadable"
\* (pickle.load raises), "notdict" (the pickled value is not a dict) or "pickle"
\* (a dict). Of a pickled dict, data is the tree of its well-formed levels and
\* bad the set of the levels, << object >> or << object, trajectory >>, whose
\* value is not a dict.
load_storage(file) == IF file.kind = "pickle" THEN file.data ELSE EmptyDict

\* the levels of the loaded storage whose value is not a dict
NotMapping(file) == IF file.kind = "pickle" THEN file.bad ELSE {}

\* lines 454-462 on a loaded storage with such a level: .setdefault on the
\* object's value (line 457) or the item assignment on the trajectory's value
\* (line 462) raises as soon as the session has data to put under it
MergeRaises(file, data) ==
    \E o \in DOMAIN data :
        \/ << o >> \in NotMapping(file) /\ data[o] # EmptyDict
        \/ \E t \in DOMAIN data[o] :
              << o, t >> \in NotMapping(file) /\ data[o][t] # EmptyDict

\* the exception it raises: AttributeError from .setdefault on a non-dict
\* (line 457), TypeError from the item assignment (line 462)
MergeException(file, data) ==
    IF \E o \in DOMAIN data : << o >> \in NotMapping(file) /\ data[o] # EmptyDict
    THEN "AttributeError"
    ELSE "TypeError"

\* the tree of the well-formed levels of the storage after a merge that left
\* the levels in bad as they were
WellFormed(tree, bad) ==
    [ o \in { x \in DOMAIN tree : << x >> \notin bad } |-> tree[o] ]

RECURSIVE MergeSteps_warnall(_, _, _)
\* the step merge warning for every key it writes, existing or not
MergeSteps_warnall(st, path, todo) ==
    IF todo.keys = {} THEN st
    ELSE LET k    == CHOOSE x \in todo.keys : TRUE
             o    == path[1]
             t    == path[2]
             tree == DictSet(st.tree, o,
                         DictSet(st.tree[o], t,
                             DictSet(st.tree[o][t], k, todo.steps[k])))
         IN  MergeSteps_warnall([tree   |-> tree,
                                 warned |-> st.warned \cup {<< o, t, k >>}],
                                path, [todo EXCEPT !.keys = todo.keys \ {k}])

RECURSIVE MergeSteps(_, _, _)
\* lines 458-462: for step_key, step_data in traj_steps.items()
\* st is [tree, warned]; keys are the step keys still to visit
MergeSteps(st, path, todo) ==
    IF todo.keys = {} THEN st
    ELSE LET k    == CHOOSE x \in todo.keys : TRUE
             o    == path[1]
             t    == path[2]
             hit  == k \in DOMAIN st.tree[o][t]
             tree == DictSet(st.tree, o,
                         DictSet(st.tree[o], t,
                             DictSet(st.tree[o][t], k, todo.steps[k])))
         IN  MergeSteps([tree   |-> tree,
                         warned |-> IF hit THEN st.warned \cup {<< o, t, k >>}
                                    ELSE st.warned],
                        path, [todo EXCEPT !.keys = todo.keys \ {k}])

RECURSIVE MergeTrajs_reset(_, _, _, _)
\* the trajectory merge with storage[obj][traj] = {} in place of setdefault
MergeTrajs_reset(st, o, obj_data, names) ==
    IF names = {} THEN st
    ELSE LET t   == CHOOSE x \in names : TRUE
             st1 == [st EXCEPT !.tree =
                        DictSet(st.tree, o, DictSet(st.tree[o], t, EmptyDict))]
             st2 == MergeSteps(st1, << o, t >>,
                               [keys |-> DOMAIN obj_data[t], steps |-> obj_data[t]])
         IN  MergeTrajs_reset(st2, o, obj_data, names \ {t})

RECURSIVE MergeTrajs(_, _, _, _)
\* lines 456-462: for traj_name, traj_steps in obj_data.items()
MergeTrajs(st, o, obj_data, names) ==
    IF names = {} THEN st
    ELSE LET t   == CHOOSE x \in names : TRUE
             st1 == [st EXCEPT !.tree =
                        DictSet(st.tree, o, DictSetDefault(st.tree[o], t, EmptyDict))]
             st2 == MergeSteps(st1, << o, t >>,
                               [keys |-> DOMAIN obj_data[t], steps |-> obj_data[t]])
         IN  MergeTrajs(st2, o, obj_data, names \ {t})

RECURSIVE MergeObjects(_, _, _)
\* lines 454-462: for obj_name, obj_data in self.calibration_data.items()
MergeObjects(st, data, names) ==
    IF names = {} THEN st
    ELSE LET o   == CHOOSE x \in names : TRUE
             st1 == [st EXCEPT !.tree = DictSetDefault(st.tree, o, EmptyDict)]
             st2 == MergeTrajs(st1, o, data[o], DOMAIN data[o])
         IN  MergeObjects(st2, data, names \ {o})

\* lines 452-462: the merged storage and the paths warned as overwritten
Merge(storage, data) ==
    MergeObjects([tree |-> storage, warned |-> {}], data, DOMAIN data)

(* ------------------------------- inputs -------------------------------- *)
\* the steps of trajectory "push" as traj.json lists them: alternately an
\* {x,y,z} object with x and y left out and a 3-element list
PushPayload ==
    JList([i \in 1..MaxSteps |->
             IF i % 2 = 1 THEN JDict(<< KV("z", Num(-100)) >>)
             ELSE JList(<< Num(0), Num(0), Num(-100) >>)])

\* a trajectory library file: cube has two usable trajectories (a list form and
\* a parallel-sequence form whose z sequence is longer) and one with only
\* malformed entries; ball has no usable trajectory; note is not an object
LibraryJson ==
    JDict(<< KV("cube", JDict(<< KV("push", PushPayload),
                                 KV("bad", JList(<< JNum, JList(<< Num(1), Num(2) >>) >>)),
                                 KV("slide", JDict(<< KV("x", << Num(100) >>),
                                                      KV("y", << Num(0) >>),
                                                      KV("z", << Num(0), Num(7) >>) >>)) >>)),
             KV("ball", JDict(<< KV("junk", JStr) >>)),
             KV("note", JStr) >>)

TrajFiles ==
    { [state |-> "missing", json |-> JDict(<< >>)],
      [state |-> "unparseable", json |-> JDict(<< >>)],
      [state |-> "json", json |-> JDict(<< >>)],
      [state |-> "json", json |-> LibraryJson] }

\* --object values
ObjectNames == { "cube", "ball", "ghost" }

\* z-force readings (0.01 N) the ATI sensor may return during a seek
SeekForces == { 0, -2, -100 }

\* marker-displacement frames the tactile sensor may return
TactileFrames == { 10, 13 }

\* force frames (already rotated into the sensor frame) read while sampling
SampleForces == { -3, -4 }

\* a step record as the store holds it from an earlier session
OldRecord(traj, i) ==
    [ marker_displacement |-> 40,
      force_xyz           |-> -8,
      metadata            |-> [trajectory |-> traj, step_index |-> i,
                               commanded_delta_mm |-> << 0, 0, -50 >>],
      depth_field         |-> None ]

\* a store written by earlier sessions
OldStore ==
    ("cube" :> ( "push"   :> ( StepKey(0) :> OldRecord("push", 0)
                            @@ StepKey(7) :> OldRecord("push", 7) )
              @@ "legacy" :> ( StepKey(0) :> OldRecord("legacy", 0) ) ))
 @@ ("old"  :> ( "t" :> ( StepKey(0) :> OldRecord("t", 0) ) ))

\* the states of the storage file: absent, well-formed, unreadable, a pickled
\* non-dict, and dicts whose value for cube or for cube/push is not a dict
StorageFiles ==
    { [kind |-> "absent", data |-> EmptyDict, bad |-> {}],
      [kind |-> "pickle", data |-> OldStore, bad |-> {}],
      [kind |-> "unreadable", data |-> EmptyDict, bad |-> {}],
      [kind |-> "notdict", data |-> EmptyDict, bad |-> {}],
      [kind |-> "pickle", data |-> "old" :> OldStore["old"], bad |-> { << "cube" >> }],
      [kind |-> "pickle",
       data |-> ("cube" :> ("legacy" :> OldStore["cube"]["legacy"]))
                @@ ("old" :> OldStore["old"]),
       bad  |-> { << "cube", "push" >> }] }

\* line 132: pose0_init
pose0_init == << 57433, -17667, 19489 >>

\* line 518: pose0_default (x, y, z)
pose0 == << 55658, -20007, 13489 >>

\* line 290: the hard-coded seek start used while z_cont is unknown
SeekStartFallback == << 55697, -20020, 11505 + 10 >>

(* ------------------------------- state --------------------------------- *)
VARIABLES
    args,               \* parsed command line: [object, dry_run, config]
    traj_file,          \* calibration/obj/traj.json
    storage_file,       \* the persistent store file
    pc,                 \* position of the program
    ret,                \* where the motion wait loop returns to
    config,             \* self.config
    trajectory_config,  \* self.trajectory_config
    z_cont,             \* self.z_cont
    calibration_data,   \* self.calibration_data
    sensor_open,        \* the tactile sensor handle is held
    pose,               \* robot.get_cartesian() (x, y, z)
    target,             \* the pose last commanded with moveCart
    moving,             \* robot.moving
    velocity,           \* the linear velocity last set
    motor_on,           \* the robot is connected with its motor on
    object_data,        \* collect_calibration_data: object_data
    ti,                 \* collect_calibration_data: index of the trajectory
    returned,           \* main: the value collect_calibration_data returned
    trajectory_data,    \* _execute_trajectory: trajectory_data
    idx,                \* _execute_trajectory: idx
    fz,                 \* move_to_contact: fz of the current iteration
    fz_current,         \* move_to_contact: fz_current of the current iteration
    descents,           \* downward steps taken by the current seek
    z_cont_entry,       \* self.z_cont as the current seek found it on entry
    marker_disp,        \* _collect_current_step_data: marker_disp
    force_data_list,    \* _collect_current_step_data: force_data_list
    exc,                \* the exception being handled ("" when none)
    log,                \* logger.error / logger.warning calls made
    overwrite_warnings, \* key paths named by the overwrite warning (line 460)
    cleanup_calls,      \* number of calls of cleanup()
    merged              \* the session trees save_calibration_data has written

inputs == << args, traj_file >>

selfv == << config, trajectory_config, z_cont, calibration_data, sensor_open >>

robotv == << pose, target, moving, velocity, motor_on >>

collectv == << object_data, ti, returned >>

execv == << trajectory_data, idx >>

seekv == << fz, fz_current, descents, z_cont_entry >>

samplev == << marker_disp, force_data_list >>

obsv == << exc, log, overwrite_warnings, cleanup_calls, merged >>

vars == << inputs, storage_file, pc, ret, selfv, robotv, collectv, execv, seekv,
           samplev, obsv >>

\* line 107-110, 157: the attributes __init__ derives from the config
step_settle_time == DictGet(config, "step_settle_time", 3)

safe_offset_mm == DictGet(config, "safe_offset_mm", 100)

frame_interval == DictGet(config, "frame_interval", 1)

data_frames == DictGet(config, "data_frames", Cap(10))

cont_th == DictGet(config, "contact_threshold", -5)

\* the ordered trajectories of the target object (line 328)
trajectories == Trajectories(trajectory_config, args.object)

Init ==
    /\ args \in [object : ObjectNames, dry_run : BOOLEAN, config : ConfigFiles]
    /\ traj_file \in TrajFiles
    /\ storage_file \in StorageFiles
    /\ pc = "main"
    /\ ret = ""
    /\ config = << >>
    /\ trajectory_config = << >>
    /\ z_cont = None
    /\ calibration_data = EmptyDict
    /\ sensor_open = FALSE
    /\ pose = pose0_init
    /\ target = pose0_init
    /\ moving = FALSE
    /\ velocity = 0
    /\ motor_on = FALSE
    /\ object_data = EmptyDict
    /\ ti = 0
    /\ returned = None
    /\ trajectory_data = EmptyDict
    /\ idx = 0
    /\ fz = None
    /\ fz_current = None
    /\ descents = 0
    /\ z_cont_entry = None
    /\ marker_disp = None
    /\ force_data_list = << >>
    /\ exc = ""
    /\ log = {}
    /\ overwrite_warnings = {}
    /\ cleanup_calls = 0
    /\ merged = << >>

(* --------------------------- robot motion ------------------------------ *)
\* robot.moveCart(tgt) followed by the busy-flag wait loop (lines 259-261,
\* 267-269); next is where the caller continues once the flag reads idle
moveCart(tgt, next) ==
    /\ target' = tgt
    /\ moving' = TRUE
    /\ pc' = "wait"
    /\ ret' = next
    /\ UNCHANGED << pose, motor_on >>

\* move_to_xyz(x, y, z)
move_to_xyz(x, y, z, next) == moveCart(<< x, y, z >>, next)

\* move_delta_xyz(dx, dy, dz)
move_delta_xyz(dx, dy, dz, next) ==
    moveCart(<< pose[1] + dx, pose[2] + dy, pose[3] + dz >>, next)

\* lines 421-427: move_to_safe_height()
move_to_safe_height(next) ==
    LET safe_z == IF z_cont # None THEN z_cont[1] + safe_offset_mm
                  ELSE pose0[3] + safe_offset_mm
    IN  move_to_xyz(pose[1], pose[2], safe_z, next)

\* the driver finishes the commanded motion and clears the busy flag
MotionComplete ==
    /\ moving
    /\ pose' = target
    /\ moving' = FALSE
    /\ UNCHANGED << inputs, storage_file, pc, ret, selfv, target, velocity, motor_on,
                    collectv, execv, seekv, samplev, obsv >>

(* ------------------------------- main ---------------------------------- *)
\* the objects of the library that have at least one usable trajectory
available_objects_usable ==
    LET cfg == load_trajectory_config(traj_file)
    IN  { cfg[i].name : i \in DOMAIN cfg }

\* line 512: the top-level keys of traj.json
available_objects == load_available_objects(traj_file)

\* lines 514-516: the object is not in the library: return before the collector
MainAbort ==
    /\ pc = "main"
    /\ available_objects # {} /\ args.object \notin available_objects
    /\ log' = log \cup { << "error", "object_not_in_library" >> }
    /\ pc' = "exit"
    /\ UNCHANGED << inputs, storage_file, ret, selfv, robotv, collectv, execv, seekv,
                    samplev, exc, overwrite_warnings, cleanup_calls, merged >>

\* lines 522-527 and __init__ (89-160): the collector is constructed
Construct ==
    /\ pc = "main"
    /\ ~(available_objects # {} /\ args.object \notin available_objects)
    /\ config' = LoadConfig(args.config)
    /\ IF LoadRaises(traj_file)
       THEN \* line 111: float() raises out of the loader, out of __init__ and
            \* out of main, before the robot is connected (line 119)
            /\ exc' = "ValueError"
            /\ pc' = "init_crashed"
            /\ UNCHANGED << trajectory_config, z_cont, calibration_data, sensor_open,
                            robotv, log, overwrite_warnings, cleanup_calls, merged >>
       ELSE /\ trajectory_config' = load_trajectory_config(traj_file)
            /\ motor_on' = TRUE
            /\ velocity' = 20
            /\ pose' = pose0
            /\ target' = pose0
            /\ moving' = FALSE
            /\ sensor_open' = TRUE
            /\ z_cont' = None
            /\ calibration_data' = EmptyDict
            /\ pc' = "constructed"
            /\ UNCHANGED obsv
    /\ UNCHANGED << inputs, storage_file, ret, collectv, execv, seekv, samplev >>

\* the dry run returning without the teardown
DryRun_nocleanup ==
    /\ pc = "constructed"
    /\ args.dry_run
    /\ pc' = "done"
    /\ UNCHANGED << inputs, storage_file, ret, selfv, robotv, collectv, execv, seekv,
                    samplev, obsv >>

\* lines 529-533: dry run
DryRun ==
    /\ pc = "constructed"
    /\ args.dry_run
    /\ pc' = "cleanup"
    /\ UNCHANGED << inputs, storage_file, ret, selfv, robotv, collectv, execv, seekv,
                    samplev, obsv >>

(* ----------------------- collect_calibration_data ---------------------- *)
\* the absent-object branch moving to the safe height before it returns
CollectAbsent_moves ==
    /\ pc = "constructed"
    /\ ~args.dry_run
    /\ Trajectories(trajectory_config, args.object) = << >>
    /\ log' = log \cup { << "warning", "object_not_found", args.object >> }
    /\ calibration_data' = DictSet(calibration_data, args.object, EmptyDict)
    /\ returned' = Some(args.object :> EmptyDict)
    /\ move_to_safe_height("cleanup")
    /\ UNCHANGED << inputs, storage_file, config, trajectory_config, z_cont,
                    sensor_open, velocity, object_data, ti, execv, seekv, samplev,
                    exc, overwrite_warnings, cleanup_calls, merged >>

\* lines 328-332: the object has no trajectories
CollectAbsent ==
    /\ pc = "constructed"
    /\ ~args.dry_run
    /\ trajectories = << >>
    /\ log' = log \cup { << "warning", "object_not_found", args.object >> }
    /\ calibration_data' = DictSet(calibration_data, args.object, EmptyDict)
    /\ returned' = Some(args.object :> EmptyDict)
    /\ pc' = "cleanup"
    /\ UNCHANGED << inputs, storage_file, ret, config, trajectory_config, z_cont,
                    sensor_open, robotv, object_data, ti, execv, seekv, samplev,
                    exc, overwrite_warnings, cleanup_calls, merged >>

\* lines 334-336: the loop over the object's trajectories is entered
CollectBegin ==
    /\ pc = "constructed"
    /\ ~args.dry_run
    /\ trajectories # << >>
    /\ object_data' = EmptyDict
    /\ ti' = 1
    /\ pc' = "traj_loop"
    /\ UNCHANGED << inputs, storage_file, ret, selfv, robotv, returned, execv, seekv,
                    samplev, obsv >>

\* the executor without the early return: every trajectory starts with the
\* move to the safe height
TrajBegin_noreturn ==
    /\ pc = "traj_loop"
    /\ ti <= Len(trajectories)
    /\ move_to_safe_height("seek_start")
    /\ UNCHANGED << ti, velocity >>
    /\ UNCHANGED << inputs, storage_file, selfv, object_data, returned, execv, seekv,
                    samplev, obsv >>

\* the executor testing the step list only after the contact seek: an empty
\* list skips the move to the safe height but not the seek
TrajBegin_seeks ==
    /\ pc = "traj_loop"
    /\ ti <= Len(trajectories)
    /\ IF trajectories[ti].steps = << >>
       THEN /\ pc' = "seek_start"
            /\ UNCHANGED << ti, ret, robotv >>
       ELSE /\ move_to_safe_height("seek_start")
            /\ UNCHANGED << ti, velocity >>
    /\ UNCHANGED << inputs, storage_file, selfv, object_data, returned, execv, seekv,
                    samplev, obsv >>

\* lines 336-338 and 350-355: the next trajectory starts; an empty step list
\* returns {} at once, otherwise the arm moves to the safe height
TrajBegin ==
    /\ pc = "traj_loop"
    /\ ti <= Len(trajectories)
    /\ IF trajectories[ti].steps = << >>
       THEN /\ ti' = ti + 1
            /\ pc' = "traj_loop"
            /\ UNCHANGED << ret, robotv >>
       ELSE /\ move_to_safe_height("seek_start")
            /\ UNCHANGED << ti, velocity >>
    /\ UNCHANGED << inputs, storage_file, selfv, object_data, returned, execv, seekv,
                    samplev, obsv >>

\* lines 344-346: the loop has ended; the object's records enter the session tree
CollectReturn ==
    /\ pc = "traj_loop"
    /\ ti > Len(trajectories)
    /\ calibration_data' = DictSet(calibration_data, args.object, object_data)
    /\ returned' = Some(args.object :> object_data)
    /\ object_data' = EmptyDict
    /\ ti' = 0
    /\ pc' = "cleanup"
    /\ UNCHANGED << inputs, storage_file, ret, config, trajectory_config, z_cont,
                    sensor_open, robotv, execv, seekv, samplev, obsv >>

\* an exception leaves _execute_trajectory: its frames are dropped
Raise(kind) ==
    /\ exc' = kind
    /\ pc' = IF kind = "KeyboardInterrupt" THEN "cleanup" ELSE "traj_except"
    /\ ret' = ""
    /\ trajectory_data' = EmptyDict
    /\ idx' = 0
    /\ fz' = None
    /\ fz_current' = None
    /\ descents' = 0
    /\ z_cont_entry' = None
    /\ marker_disp' = None
    /\ force_data_list' = << >>

\* the handler leaving the loop (break) after the first failed trajectory
TrajExcept_break ==
    /\ pc = "traj_except"
    /\ log' = log \cup { << "error", "trajectory_failed", trajectories[ti].name, exc >> }
    /\ exc' = ""
    /\ ti' = Len(trajectories) + 1
    /\ pc' = "traj_loop"
    /\ UNCHANGED << inputs, storage_file, ret, selfv, robotv, object_data, returned,
                    execv, seekv, samplev, overwrite_warnings, cleanup_calls, merged >>

\* the handler re-raising: the exception leaves collect_calibration_data and
\* main goes to the teardown
TrajExcept_reraise ==
    /\ pc = "traj_except"
    /\ log' = log \cup { << "error", "trajectory_failed", trajectories[ti].name, exc >> }
    /\ object_data' = EmptyDict
    /\ ti' = 0
    /\ pc' = "cleanup"
    /\ UNCHANGED << inputs, storage_file, ret, selfv, robotv, returned, execv, seekv,
                    samplev, exc, overwrite_warnings, cleanup_calls, merged >>

\* lines 341-342: except Exception: the failure is logged, the loop goes on
TrajExcept ==
    /\ pc = "traj_except"
    /\ log' = log \cup { << "error", "trajectory_failed", trajectories[ti].name, exc >> }
    /\ exc' = ""
    /\ ti' = ti + 1
    /\ pc' = "traj_loop"
    /\ UNCHANGED << inputs, storage_file, ret, selfv, robotv, object_data, returned,
                    execv, seekv, samplev, overwrite_warnings, cleanup_calls, merged >>

\* the positions inside the try block of main (lines 535-536)
CollectPcs ==
    { "traj_loop", "traj_except", "traj_return", "seek_start", "seek_setvel",
      "seek_safety", "seek_contact", "seek_down", "seek_restore", "step_loop",
      "sample_tactile", "sample_force" }

Collecting ==
    \/ pc \in CollectPcs
    \/ pc = "wait" /\ ret \in CollectPcs

\* lines 535-550: a KeyboardInterrupt (not an Exception, so neither line 341 nor
\* line 544 catches it) unwinds collect_calibration_data; finally runs cleanup
KeyboardInterrupt ==
    /\ Collecting
    /\ Raise("KeyboardInterrupt")
    /\ object_data' = EmptyDict
    /\ ti' = 0
    /\ UNCHANGED << inputs, storage_file, selfv, robotv, returned, log,
                    overwrite_warnings, cleanup_calls, merged >>

\* the move returning after one sleep, whatever the busy flag reads
PollIdle_nowait ==
    /\ pc = "wait"
    /\ pc' = ret
    /\ ret' = ""
    /\ UNCHANGED << inputs, storage_file, selfv, robotv, collectv, execv, seekv,
                    samplev, obsv >>

\* the wait with a maximum: on a flag still busy a trajectory's move gives up
\* with a timeout error
PollIdle_timeout ==
    /\ pc = "wait"
    /\ IF moving
       THEN /\ Collecting
            /\ Raise("MotionTimeout")
            /\ UNCHANGED << inputs, storage_file, selfv, robotv, collectv, log,
                            overwrite_warnings, cleanup_calls, merged >>
       ELSE /\ pc' = ret
            /\ ret' = ""
            /\ UNCHANGED << inputs, storage_file, selfv, robotv, collectv, execv,
                            seekv, samplev, obsv >>

\* while self.robot.moving: time.sleep(...) -- the loop exits on an idle flag
PollIdle ==
    /\ pc = "wait"
    /\ ~moving
    /\ pc' = ret
    /\ ret' = ""
    /\ UNCHANGED << inputs, storage_file, selfv, robotv, collectv, execv, seekv,
                    samplev, obsv >>

(* --------------------------- move_to_contact --------------------------- *)
\* lines 285-290: the move to the seek start height
SeekStart ==
    /\ pc = "seek_start"
    /\ IF z_cont # None
       THEN /\ velocity' = 20
            /\ move_to_xyz(pose[1], pose[2], z_cont[1] + 10, "seek_setvel")
       ELSE /\ velocity' = velocity
            /\ move_to_xyz(SeekStartFallback[1], SeekStartFallback[2],
                           SeekStartFallback[3], "seek_setvel")
    /\ z_cont_entry' = z_cont
    /\ UNCHANGED << inputs, storage_file, selfv, collectv, execv, fz, fz_current,
                    descents, samplev, obsv >>

\* line 293: set_velocity(config['approach_speed'])
SetApproachSpeed ==
    /\ pc = "seek_setvel"
    /\ IF "approach_speed" \in DOMAIN config
       THEN /\ velocity' = config["approach_speed"]
            /\ pc' = "seek_safety"
            /\ UNCHANGED << ret, execv, seekv, samplev, exc >>
       ELSE /\ Raise("KeyError")
            /\ UNCHANGED velocity
    /\ UNCHANGED << inputs, storage_file, selfv, pose, target, moving, motor_on,
                    collectv, log, overwrite_warnings, cleanup_calls, merged >>

\* the safety comparison made strict: a reading equal to max_force passes
SafetyCheck_strict ==
    /\ pc = "seek_safety"
    /\ \E f \in SeekForces :
         IF "max_force" \notin DOMAIN config
         THEN /\ Raise("KeyError")
              /\ UNCHANGED log
         ELSE IF f < config["max_force"]
         THEN /\ Raise("SafetyFault")
              /\ log' = log \cup { << "error", "force_too_large" >> }
         ELSE /\ fz' = Some(f)
              /\ pc' = "seek_contact"
              /\ UNCHANGED << ret, execv, fz_current, descents, z_cont_entry, samplev,
                              exc, log >>
    /\ UNCHANGED << inputs, storage_file, selfv, robotv, collectv,
                    overwrite_warnings, cleanup_calls, merged >>

\* lines 299-302: the safety reading and the safety comparison
SafetyCheck ==
    /\ pc = "seek_safety"
    /\ \E f \in SeekForces :
         IF "max_force" \notin DOMAIN config
         THEN /\ Raise("KeyError")
              /\ UNCHANGED log
         ELSE IF f <= config["max_force"]
         THEN /\ Raise("SafetyFault")
              /\ log' = log \cup { << "error", "force_too_large" >> }
         ELSE /\ fz' = Some(f)
              /\ pc' = "seek_contact"
              /\ UNCHANGED << ret, execv, fz_current, descents, z_cont_entry, samplev,
                              exc, log >>
    /\ UNCHANGED << inputs, storage_file, selfv, robotv, collectv,
                    overwrite_warnings, cleanup_calls, merged >>

\* lines 304-312: the contact reading and the contact comparison
ContactCheck ==
    /\ pc = "seek_contact"
    /\ \E f \in SeekForces :
         /\ fz_current' = Some(f)
         /\ IF f <= cont_th
            THEN /\ z_cont' = Some(pose[3])
                 /\ pc' = "seek_restore"
            ELSE /\ pc' = "seek_down"
                 /\ UNCHANGED z_cont
    /\ UNCHANGED << inputs, storage_file, ret, config, trajectory_config,
                    calibration_data, sensor_open, robotv, collectv, execv, fz,
                    descents, z_cont_entry, samplev, obsv >>

\* the descent stepping back up by 0.01 mm
StepDown_up ==
    /\ pc = "seek_down"
    /\ descents < MaxDescent
    /\ descents' = descents + 1
    /\ move_delta_xyz(0, 0, 1, "seek_safety")
    /\ UNCHANGED << inputs, storage_file, selfv, velocity, collectv, execv, fz,
                    fz_current, z_cont_entry, samplev, obsv >>

\* the descent with a depth limit: after the first downward step the seek
\* gives up with an error
StepDown_bounded ==
    /\ pc = "seek_down"
    /\ descents < MaxDescent
    /\ IF descents >= 1
       THEN /\ Raise("ContactNotFound")
            /\ UNCHANGED << robotv, log, overwrite_warnings, cleanup_calls, merged >>
       ELSE /\ descents' = descents + 1
            /\ move_delta_xyz(0, 0, -1, "seek_safety")
            /\ UNCHANGED << velocity, execv, fz, fz_current, z_cont_entry, samplev,
                            obsv >>
    /\ UNCHANGED << inputs, storage_file, selfv, collectv >>

\* lines 315-316: one downward step of 0.01 mm
StepDown ==
    /\ pc = "seek_down"
    /\ descents < MaxDescent
    /\ descents' = descents + 1
    /\ move_delta_xyz(0, 0, -1, "seek_safety")
    /\ UNCHANGED << inputs, storage_file, selfv, velocity, collectv, execv, fz,
                    fz_current, z_cont_entry, samplev, obsv >>

\* line 315: the robot driver raises in move_delta_xyz (get_cartesian or
\* moveCart on a lost connection); no step is commanded
SeekDriverFault ==
    /\ pc = "seek_down"
    /\ Raise("DriverFault")
    /\ UNCHANGED << inputs, storage_file, selfv, robotv, collectv, log,
                    overwrite_warnings, cleanup_calls, merged >>

\* the flag is_contact after the loop: the contact reading crossed cont_th
is_contact == fz_current # None /\ fz_current[1] <= cont_th

\* the seek returning at approach speed: press_speed is looked up but not set
RestorePressSpeed_keep ==
    /\ pc = "seek_restore"
    /\ IF ~is_contact
       THEN /\ Raise("ContactNotFound")
            /\ UNCHANGED velocity
       ELSE IF "press_speed" \in DOMAIN config
       THEN /\ velocity' = velocity
            /\ pc' = "step_loop"
            /\ trajectory_data' = EmptyDict
            /\ idx' = 0
            /\ fz' = None
            /\ fz_current' = None
            /\ descents' = 0
            /\ z_cont_entry' = None
            /\ UNCHANGED << ret, samplev, exc >>
       ELSE /\ Raise("KeyError")
            /\ UNCHANGED velocity
    /\ UNCHANGED << inputs, storage_file, selfv, pose, target, moving, motor_on,
                    collectv, log, overwrite_warnings, cleanup_calls, merged >>

\* lines 318-322 and 358-360: without contact RuntimeError("未检测到接触") is
\* raised; otherwise press speed is restored and the step loop is entered
RestorePressSpeed ==
    /\ pc = "seek_restore"
    /\ IF ~is_contact
       THEN /\ Raise("ContactNotFound")
            /\ UNCHANGED velocity
       ELSE IF "press_speed" \in DOMAIN config
       THEN /\ velocity' = config["press_speed"]
            /\ pc' = "step_loop"
            /\ trajectory_data' = EmptyDict
            /\ idx' = 0
            /\ fz' = None
            /\ fz_current' = None
            /\ descents' = 0
            /\ z_cont_entry' = None
            /\ UNCHANGED << ret, samplev, exc >>
       ELSE /\ Raise("KeyError")
            /\ UNCHANGED velocity
    /\ UNCHANGED << inputs, storage_file, selfv, pose, target, moving, motor_on,
                    collectv, log, overwrite_warnings, cleanup_calls, merged >>

(* ------------------------- _execute_trajectory ------------------------- *)
\* the step list of the trajectory being executed
steps == trajectories[ti].steps

\* the step loop sampling without the motion of the step
StepMove_nomotion ==
    /\ pc = "step_loop"
    /\ idx < Len(steps)
    /\ pc' = "sample_tactile"
    /\ UNCHANGED << inputs, storage_file, ret, selfv, robotv, collectv, execv, seekv,
                    samplev, obsv >>

\* lines 362-367: the relative motion of step idx
StepMove ==
    /\ pc = "step_loop"
    /\ idx < Len(steps)
    /\ move_delta_xyz(steps[idx + 1].x, steps[idx + 1].y, steps[idx + 1].z,
                      "sample_tactile")
    /\ UNCHANGED << inputs, storage_file, selfv, velocity, collectv, execv, seekv,
                    samplev, obsv >>

\* lines 388-390, 407-409: the single tactile read of a step
SampleTactile ==
    /\ pc = "sample_tactile"
    /\ \/ /\ \E m \in TactileFrames : marker_disp' = Some(m)
          /\ force_data_list' = << >>
          /\ pc' = "sample_force"
          /\ UNCHANGED << ret, execv, seekv, exc, log >>
       \/ /\ Raise("SamplingFailure")
          /\ log' = log \cup { << "error", "step_sampling_failed" >> }
    /\ UNCHANGED << inputs, storage_file, selfv, robotv, collectv,
                    overwrite_warnings, cleanup_calls, merged >>

\* the force read whose failure is logged and swallowed: the window goes on
SampleForce_swallow ==
    /\ pc = "sample_force"
    /\ Len(force_data_list) < data_frames
    /\ \/ /\ \E f \in SampleForces : force_data_list' = Append(force_data_list, f)
          /\ UNCHANGED << pc, ret, execv, seekv, marker_disp, exc, log >>
       \/ /\ log' = log \cup { << "error", "step_sampling_failed" >> }
          /\ UNCHANGED << pc, ret, execv, seekv, samplev, exc >>
    /\ UNCHANGED << inputs, storage_file, selfv, robotv, collectv,
                    overwrite_warnings, cleanup_calls, merged >>

\* lines 391-394, 407-409: one force frame of the sampling window
SampleForce ==
    /\ pc = "sample_force"
    /\ Len(force_data_list) < data_frames
    /\ \/ /\ \E f \in SampleForces : force_data_list' = Append(force_data_list, f)
          /\ UNCHANGED << pc, ret, execv, seekv, marker_disp, exc, log >>
       \/ /\ Raise("SamplingFailure")
          /\ log' = log \cup { << "error", "step_sampling_failed" >> }
    /\ UNCHANGED << inputs, storage_file, selfv, robotv, collectv,
                    overwrite_warnings, cleanup_calls, merged >>

\* the metadata with the components of the delta in reverse order
Metadata_zyx(name, i, step) ==
    [ trajectory         |-> name,
      step_index         |-> i,
      commanded_delta_mm |-> << step.z, step.y, step.x >> ]

\* lines 369-373: the metadata of step i of trajectory name
Metadata(name, i, step) ==
    [ trajectory         |-> name,
      step_index         |-> i,
      commanded_delta_mm |-> << step.x, step.y, step.z >> ]

\* lines 395-402: the record built from one sampling window
StepData(marker, forces, metadata) ==
    [ marker_displacement |-> astype_float32(marker),
      force_xyz           |-> astype_float32(np_mean(forces)),
      metadata            |-> metadata,
      depth_field         |-> None ]

\* lines 395-405, 375-378: the record is stored under its step key
StoreStep ==
    /\ pc = "sample_force"
    /\ Len(force_data_list) = data_frames
    /\ trajectory_data' =
         DictSet(trajectory_data, StepKey(idx),
                 StepData(marker_disp[1], force_data_list,
                          Metadata(trajectories[ti].name, idx, steps[idx + 1])))
    /\ idx' = idx + 1
    /\ marker_disp' = None
    /\ force_data_list' = << >>
    /\ pc' = "step_loop"
    /\ UNCHANGED << inputs, storage_file, ret, selfv, robotv, collectv, seekv, obsv >>

\* lines 380-381: back to the safe height after the last step
TrajFinish ==
    /\ pc = "step_loop"
    /\ idx = Len(steps)
    /\ move_to_safe_height("traj_return")
    /\ UNCHANGED << inputs, storage_file, selfv, velocity, collectv, execv, seekv,
                    samplev, obsv >>

\* the loop committing each finished trajectory to self.calibration_data
TrajReturn_commits ==
    /\ pc = "traj_return"
    /\ object_data' = IF trajectory_data # EmptyDict
                      THEN DictSet(object_data, trajectories[ti].name, trajectory_data)
                      ELSE object_data
    /\ calibration_data' = DictSet(calibration_data, args.object, object_data')
    /\ trajectory_data' = EmptyDict
    /\ idx' = 0
    /\ ti' = ti + 1
    /\ pc' = "traj_loop"
    /\ UNCHANGED << inputs, storage_file, ret, config, trajectory_config, z_cont,
                    sensor_open, robotv, returned, seekv, samplev, obsv >>

\* lines 383-384, 338-340: the trajectory's records enter object_data
TrajReturn ==
    /\ pc = "traj_return"
    /\ object_data' = IF trajectory_data # EmptyDict
                      THEN DictSet(object_data, trajectories[ti].name, trajectory_data)
                      ELSE object_data
    /\ trajectory_data' = EmptyDict
    /\ idx' = 0
    /\ ti' = ti + 1
    /\ pc' = "traj_loop"
    /\ UNCHANGED << inputs, storage_file, ret, selfv, robotv, returned, seekv,
                    samplev, obsv >>

(* ------------------------------ teardown ------------------------------- *)
\* the teardown move going to the safe height above the contact surface
CleanupMove_safe_height ==
    /\ pc = "cleanup"
    /\ cleanup_calls' = cleanup_calls + 1
    /\ velocity' = 20
    /\ move_to_safe_height("cleanup_save")
    /\ UNCHANGED << inputs, storage_file, selfv, collectv, execv, seekv, samplev,
                    exc, log, overwrite_warnings, merged >>

\* lines 469-474, 411-417: cleanup() starts with move_to_safe_position()
CleanupMove ==
    /\ pc = "cleanup"
    /\ cleanup_calls' = cleanup_calls + 1
    /\ velocity' = 20
    /\ move_to_xyz(pose[1], pose[2], pose0[3] + Max(safe_offset_mm, 5000),
                   "cleanup_save")
    /\ UNCHANGED << inputs, storage_file, selfv, collectv, execv, seekv, samplev,
                    exc, log, overwrite_warnings, merged >>

\* lines 472, 411-417: the robot driver raises inside move_to_safe_position
\* (set_velocity, get_cartesian or moveCart on a lost connection); the call is
\* not guarded, so the exception leaves cleanup and main
CleanupMoveFault ==
    /\ pc = "cleanup"
    /\ cleanup_calls' = cleanup_calls + 1
    /\ velocity' \in { velocity, 20 }
    /\ exc' = "DriverFault"
    /\ pc' = "crashed"
    /\ UNCHANGED << inputs, storage_file, ret, selfv, pose, target, moving, motor_on,
                    collectv, execv, seekv, samplev, log, overwrite_warnings, merged >>

\* the save writing the session tree in place of the merged store
save_calibration_data_replace ==
    IF calibration_data = EmptyDict
    THEN /\ log' = log \cup { << "warning", "nothing_to_save" >> }
         /\ UNCHANGED << storage_file, overwrite_warnings, merged >>
    ELSE IF MergeRaises(storage_file, calibration_data)
    THEN UNCHANGED << storage_file, overwrite_warnings, merged, log >>
    ELSE LET m == Merge(load_storage(storage_file), calibration_data)
         IN  /\ storage_file' = [kind |-> "pickle", data |-> calibration_data,
                                 bad  |-> {}]
             /\ overwrite_warnings' = overwrite_warnings \cup m.warned
             /\ merged' = Append(merged, calibration_data)
             /\ UNCHANGED log

\* lines 446-467: save_calibration_data(); when the merge raises nothing has
\* been written (the only write is line 464, after the loops)
save_calibration_data ==
    IF calibration_data = EmptyDict
    THEN /\ log' = log \cup { << "warning", "nothing_to_save" >> }
         /\ UNCHANGED << storage_file, overwrite_warnings, merged >>
    ELSE IF MergeRaises(storage_file, calibration_data)
    THEN UNCHANGED << storage_file, overwrite_warnings, merged, log >>
    ELSE LET bad == NotMapping(storage_file)
             m   == Merge(load_storage(storage_file), calibration_data)
         IN  /\ storage_file' = [kind |-> "pickle",
                                 data |-> WellFormed(m.tree, bad),
                                 bad  |-> bad]
             /\ overwrite_warnings' = overwrite_warnings \cup m.warned
             /\ merged' = Append(merged, calibration_data)
             /\ UNCHANGED log

\* the save step emptying the in-memory session tree once it is written
CleanupSave_clears ==
    /\ pc = "cleanup_save"
    /\ IF calibration_data # EmptyDict
       THEN save_calibration_data
       ELSE UNCHANGED << storage_file, overwrite_warnings, log, merged >>
    /\ IF calibration_data # EmptyDict /\ MergeRaises(storage_file, calibration_data)
       THEN pc' = "crashed" /\ exc' = MergeException(storage_file, calibration_data)
            /\ UNCHANGED calibration_data
       ELSE pc' = "cleanup_release" /\ UNCHANGED exc
            /\ calibration_data' = EmptyDict
    /\ UNCHANGED << inputs, ret, config, trajectory_config, z_cont, sensor_open,
                    robotv, collectv, execv, seekv, samplev, cleanup_calls >>

\* lines 476-478: if self.calibration_data: self.save_calibration_data(). An
\* exception of the merge is caught neither in cleanup() nor in main (cleanup
\* runs in the finally clause, or after the dry-run test): the program ends
\* with it, before the release of the sensor.
CleanupSave ==
    /\ pc = "cleanup_save"
    /\ IF calibration_data # EmptyDict
       THEN save_calibration_data
       ELSE UNCHANGED << storage_file, overwrite_warnings, log, merged >>
    /\ IF calibration_data # EmptyDict /\ MergeRaises(storage_file, calibration_data)
       THEN pc' = "crashed" /\ exc' = MergeException(storage_file, calibration_data)
       ELSE pc' = "cleanup_release" /\ UNCHANGED exc
    /\ UNCHANGED << inputs, ret, selfv, robotv, collectv, execv, seekv, samplev,
                    cleanup_calls >>

\* lines 480-484: the tactile sensor is released
CleanupRelease ==
    /\ pc = "cleanup_release"
    /\ sensor_open' = FALSE
    /\ pc' = "cleanup_motor"
    /\ UNCHANGED << inputs, storage_file, ret, config, trajectory_config, z_cont,
                    calibration_data, robotv, collectv, execv, seekv, samplev, obsv >>

\* lines 486-493: the motor is switched off; cleanup and main return
CleanupMotorOff ==
    /\ pc = "cleanup_motor"
    /\ motor_on' = FALSE
    /\ pc' = "done"
    /\ UNCHANGED << inputs, storage_file, ret, selfv, pose, target, moving, velocity,
                    collectv, execv, seekv, samplev, obsv >>

(* ---------------------------- specification ---------------------------- *)
Next ==
    \/ MainAbort
    \/ Construct
    \/ DryRun
    \/ CollectAbsent
    \/ CollectBegin
    \/ TrajBegin
    \/ CollectReturn
    \/ TrajExcept
    \/ SeekStart
    \/ SetApproachSpeed
    \/ SafetyCheck
    \/ ContactCheck
    \/ StepDown
    \/ SeekDriverFault
    \/ RestorePressSpeed
    \/ StepMove
    \/ SampleTactile
    \/ SampleForce
    \/ StoreStep
    \/ TrajFinish
    \/ TrajReturn
    \/ CleanupMove
    \/ CleanupMoveFault
    \/ CleanupSave
    \/ CleanupRelease
    \/ CleanupMotorOff
    \/ KeyboardInterrupt
    \/ MotionComplete
    \/ PollIdle

Spec == Init /\ [][Next]_vars

(* ------------------- sessions sharing one store ------------------------ *)
\* largest number of sessions that save into the same storage location
MaxSessions == 2

\* the key paths session trees are built over: two steps of one trajectory, a
\* sibling trajectory and a second object
StorePaths ==
    { << "cube", "push", StepKey(0) >>, << "cube", "push", StepKey(1) >>,
      << "cube", "slide", StepKey(0) >>, << "ball", "push", StepKey(0) >> }

\* a step record with payload v
Rec(v) ==
    [ marker_displacement |-> v,
      force_xyz           |-> v,
      metadata            |-> [trajectory |-> "any", step_index |-> 0,
                               commanded_delta_mm |-> << 0, 0, 0 >>],
      depth_field         |-> None ]

\* the tree holding Rec(f[p]) at every path p with f[p] # 0
TreeOf(f) ==
    LET present == { p \in DOMAIN f : f[p] # 0 }
    IN  [ o \in { p[1] : p \in present } |->
            [ t \in { p[2] : p \in { q \in present : q[1] = o } } |->
                [ k \in { p[3] : p \in { q \in present : q[1] = o /\ q[2] = t } } |->
                    Rec(f[<< o, t, k >>]) ] ] ]

\* the payloads a session may hold at a path (0: no record); the two steps of
\* cube/push come with two different payloads
Payloads(p) == IF p[1] = "cube" /\ p[2] = "push" THEN 0..2 ELSE 0..1

\* the session trees: every choice of records over StorePaths, and the tree of
\* a session that produced no record
SessionTrees ==
    { TreeOf(f) : f \in { g \in [StorePaths -> 0..2] :
                            \A p \in StorePaths : g[p] \in Payloads(p) } }
    \cup { "ghost" :> EmptyDict }

\* the state of a collector at the save step of its teardown, holding tree
AtSave(tree) ==
    /\ pc = "cleanup_save"
    /\ calibration_data = tree
    /\ args = [object |-> "cube", dry_run |-> FALSE,
               config |-> [given |-> FALSE, yaml |-> << >>]]
    /\ traj_file = [state |-> "missing", json |-> JDict(<< >>)]
    /\ ret = ""
    /\ config = get_default_config
    /\ trajectory_config = << >>
    /\ z_cont = None
    /\ sensor_open = TRUE
    /\ pose = pose0
    /\ target = pose0
    /\ moving = FALSE
    /\ velocity = 20
    /\ motor_on = TRUE
    /\ object_data = EmptyDict
    /\ ti = 0
    /\ returned = None
    /\ trajectory_data = EmptyDict
    /\ idx = 0
    /\ fz = None
    /\ fz_current = None
    /\ descents = 0
    /\ z_cont_entry = None
    /\ marker_disp = None
    /\ force_data_list = << >>
    /\ exc = ""
    /\ log = {}
    /\ overwrite_warnings = {}
    /\ cleanup_calls = 1

InitStore ==
    /\ storage_file = [kind |-> "absent", data |-> EmptyDict, bad |-> {}]
    /\ merged = << >>
    /\ \E tree \in SessionTrees : AtSave(tree)

\* a later run of the program reaches its save step with another session tree;
\* its log starts empty
NextSession ==
    /\ pc = "cleanup_release"
    /\ Len(merged) < MaxSessions
    /\ \E tree \in SessionTrees : calibration_data' = tree
    /\ pc' = "cleanup_save"
    /\ log' = {}
    /\ overwrite_warnings' = {}
    /\ UNCHANGED << inputs, storage_file, ret, config, trajectory_config, z_cont,
                    sensor_open, robotv, collectv, execv, seekv, samplev, exc,
                    cleanup_calls, merged >>

NextStore ==
    \/ CleanupSave
    \/ NextSession

SpecStore == InitStore /\ [][NextStore]_vars

(* ------------- a collector whose library holds empty step lists ------- *)
\* trajectory_config values with a trajectory "nil" whose step list is empty,
\* before, after and without a trajectory of one step
EmptyStepLibraries ==
    LET nil  == [name |-> "nil", steps |-> << >>]
        push == [name |-> "push", steps |-> << XYZ(0, 0, -100) >>]
    IN  { << [name |-> "cube", trajs |-> << nil, push >>] >>,
          << [name |-> "cube", trajs |-> << push, nil >>] >>,
          << [name |-> "cube", trajs |-> << nil >>] >> }

\* the collector after __init__, about to run collect_calibration_data() on a
\* trajectory_config that holds an empty step list
InitExec ==
    /\ pc = "constructed"
    /\ args \in [object : { "cube", "ghost" }, dry_run : { FALSE }, config : ConfigFiles]
    /\ traj_file = [state |-> "missing", json |-> JDict(<< >>)]
    /\ storage_file \in StorageFiles
    /\ ret = ""
    /\ config = LoadConfig(args.config)
    /\ trajectory_config \in EmptyStepLibraries
    /\ z_cont = None
    /\ calibration_data = EmptyDict
    /\ sensor_open = TRUE
    /\ pose = pose0
    /\ target = pose0
    /\ moving = FALSE
    /\ velocity = 20
    /\ motor_on = TRUE
    /\ object_data = EmptyDict
    /\ ti = 0
    /\ returned = None
    /\ trajectory_data = EmptyDict
    /\ idx = 0
    /\ fz = None
    /\ fz_current = None
    /\ descents = 0
    /\ z_cont_entry = None
    /\ marker_disp = None
    /\ force_data_list = << >>
    /\ exc = ""
    /\ log = {}
    /\ overwrite_warnings = {}
    /\ cleanup_calls = 0
    /\ merged = << >>

NextExec ==
    \/ CollectAbsent
    \/ CollectBegin
    \/ TrajBegin
    \/ CollectReturn
    \/ TrajExcept
    \/ SeekStart
    \/ SetApproachSpeed
    \/ SafetyCheck
    \/ ContactCheck
    \/ StepDown
    \/ SeekDriverFault
    \/ RestorePressSpeed
    \/ StepMove
    \/ SampleTactile
    \/ SampleForce
    \/ StoreStep
    \/ TrajFinish
    \/ TrajReturn
    \/ CleanupMove
    \/ CleanupMoveFault
    \/ CleanupSave
    \/ CleanupRelease
    \/ CleanupMotorOff
    \/ KeyboardInterrupt
    \/ MotionComplete
    \/ PollIdle

SpecExec == InitExec /\ [][NextExec]_vars

(* ------------------- the loader on bounded libraries ------------------- *)
\* entries a trajectory list is built from, at most MaxEntries of them
MaxEntries == 2

\* sequences over S of length 0..n
SeqsUpTo(S, n) == UNION { [1..k -> S] : k \in 0..n }

\* list entries: a full {x,y,z} object, an object with x and y left out, a
\* 3-element list, a 2-element list, a bare number, an object whose x is not a
\* number, a 3-element list whose second element is not a number
LoadEntries ==
    { JDict(<< KV("x", Num(100)), KV("y", Num(0)), KV("z", Num(-100)) >>),
      JDict(<< KV("z", Num(-100)) >>),
      JList(<< Num(100), Num(0), Num(-100) >>),
      JList(<< Num(1), Num(2) >>),
      JNum,
      JDict(<< KV("x", NotNum), KV("y", Num(0)), KV("z", Num(-100)) >>),
      JList(<< Num(0), NotNum, Num(0) >>) }

\* coordinate sequences of the parallel form
CoordSeqs == SeqsUpTo({ Num(-100), NotNum }, MaxEntries)

\* trajectory payloads: the list form, the parallel form (y is a full-length
\* sequence of zeros, x and z vary in length and content), a mapping without
\* the z key, a string
LoadPayloads ==
    { JList(es) : es \in SeqsUpTo(LoadEntries, MaxEntries) } \cup
    { JDict(<< KV("x", xs), KV("y", [i \in 1..MaxEntries |-> Num(0)]), KV("z", zs) >>) :
        xs \in CoordSeqs, zs \in CoordSeqs } \cup
    { JDict(<< KV("x", << Num(100) >>), KV("y", << Num(0) >>) >>), JStr }

\* traj.json with the object cube and its one trajectory push
LoadFiles ==
    { [state |-> "json",
       json |-> JDict(<< KV("cube", JDict(<< KV("push", p) >>)) >>)] :
        p \in LoadPayloads }

\* main started for the object cube with --dry-run on one of the libraries
InitLoad ==
    /\ args = [object |-> "cube", dry_run |-> TRUE,
               config |-> [given |-> FALSE, yaml |-> << >>]]
    /\ traj_file \in LoadFiles
    /\ storage_file = [kind |-> "absent", data |-> EmptyDict, bad |-> {}]
    /\ pc = "main"
    /\ ret = ""
    /\ config = << >>
    /\ trajectory_config = << >>
    /\ z_cont = None
    /\ calibration_data = EmptyDict
    /\ sensor_open = FALSE
    /\ pose = pose0_init
    /\ target = pose0_init
    /\ moving = FALSE
    /\ velocity = 0
    /\ motor_on = FALSE
    /\ object_data = EmptyDict
    /\ ti = 0
    /\ returned = None
    /\ trajectory_data = EmptyDict
    /\ idx = 0
    /\ fz = None
    /\ fz_current = None
    /\ descents = 0
    /\ z_cont_entry = None
    /\ marker_disp = None
    /\ force_data_list = << >>
    /\ exc = ""
    /\ log = {}
    /\ overwrite_warnings = {}
    /\ cleanup_calls = 0
    /\ merged = << >>

\* the run up to the end of __init__
NextLoad == Construct

SpecLoad == InitLoad /\ [][NextLoad]_vars

(* ------------------------- runs under fairness ------------------------- *)
\* main started without --dry-run on the library LibraryJson, for an object
\* with trajectories (cube) or without (ball), with the built-in config or a
\* config file without max_force
InitLive ==
    /\ Init
    /\ args.object \in { "cube", "ball" }
    /\ ~args.dry_run
    /\ \/ ~args.config.given
       \/ args.config.yaml = Without({"max_force"})
    /\ traj_file = [state |-> "json", json |-> LibraryJson]
    /\ storage_file.kind = "absent"

\* the seek is not left waiting for a contact below the deepest modelled step
ContactWithinReach == ~(pc = "seek_down" /\ descents = MaxDescent)

\* lines 304-312 with a z-force that reaches the contact threshold or the
\* safety limit within MaxDescent downward steps
ContactCheckWithinReach == ContactCheck /\ ContactWithinReach'

\* the steps of the single-threaded program: it runs until main returns
ProgramStep ==
    \/ Construct
    \/ CollectAbsent
    \/ CollectBegin
    \/ TrajBegin
    \/ CollectReturn
    \/ TrajExcept
    \/ SeekStart
    \/ SetApproachSpeed
    \/ SafetyCheck
    \/ ContactCheckWithinReach
    \/ StepDown
    \/ RestorePressSpeed
    \/ StepMove
    \/ SampleTactile
    \/ SampleForce
    \/ StoreStep
    \/ TrajFinish
    \/ TrajReturn
    \/ CleanupMove
    \/ CleanupSave
    \/ CleanupRelease
    \/ CleanupMotorOff
    \/ PollIdle

NextLive ==
    \/ ProgramStep
    \/ SeekDriverFault
    \/ CleanupMoveFault
    \/ KeyboardInterrupt
    \/ MotionComplete

\* the program keeps taking steps, and the driver finishes every commanded
\* motion: the busy flag eventually reads idle after every moveCart
SpecLive ==
    InitLive /\ [][NextLive]_vars /\ WF_vars(ProgramStep) /\ WF_vars(MotionComplete)

(* ------------------------------ properties ----------------------------- *)
\* "step_" followed by the three decimal digits of i (i < 1000)
ExpectedKey(i) == << "step_", i \div 100, (i \div 10) % 10, i % 10 >>

\* the persistent store as the next session would load it
Store == load_storage(storage_file)

\* the teardown has been entered
InTeardown ==
    \/ pc \in { "cleanup", "cleanup_save", "cleanup_release", "cleanup_motor", "done",
                 "crashed" }
    \/ pc = "wait" /\ ret = "cleanup_save"

\* cleanup() has been called
CleanupEntered ==
    \/ pc \in { "cleanup_save", "cleanup_release", "cleanup_motor", "done", "crashed" }
    \/ pc = "wait" /\ ret = "cleanup_save"

\* the per-trajectory handler has logged a failure of trajectory name
Failed(name) ==
    \E e \in { x \in log : Len(x) = 4 } : e[2] = "trajectory_failed" /\ e[3] = name

FailedWith(name, kind) == << "error", "trajectory_failed", name, kind >> \in log

\* C1: when a contact seek declares contact, neither reading of that iteration
\* (the safety reading fz, the contact reading fz_current) is at or below
\* max_force: contact is never declared on a reading beyond the safety limit.
C1_ContactNeverBeyondSafetyLimit ==
    pc = "seek_restore" =>
        /\ fz[1] > config["max_force"]
        /\ fz_current[1] > config["max_force"]

\* C2: once the safety fault of a contact seek has been raised (its error is
\* logged), the session is aborted: the program is at most in the handler that
\* received the fault, or in teardown; no trajectory is started or continued.
C2_SafetyFaultAbortsSession ==
    << "error", "force_too_large" >> \in log =>
        \/ pc = "traj_except" /\ exc = "SafetyFault"
        \/ InTeardown

\* C3: when _execute_trajectory returns for a trajectory of N >= 1 steps, its
\* result holds exactly N records, under the keys step_000 .. step_{N-1}, and
\* the record under the key of index i has metadata.step_index = i.
C3_OneRecordPerStep ==
    pc = "traj_return" =>
        LET N == Len(steps)
        IN  /\ N >= 1
            /\ Cardinality(DOMAIN trajectory_data) = N
            /\ DOMAIN trajectory_data = { ExpectedKey(i) : i \in 0..(N - 1) }
            /\ \A i \in 0..(N - 1) :
                 trajectory_data[ExpectedKey(i)].metadata.step_index = i

C3_Witness ==
    /\ pc = "traj_return"
    /\ Len(steps) >= 2
    /\ ExpectedKey(1) \in DOMAIN trajectory_data

\* the part of C4 that holds of the returned tree
C4_Returned ==
    (returned # None /\ trajectories # << >>) =>
        LET tree == returned[1][args.object]
        IN  /\ calibration_data[args.object] = tree
            /\ \A i \in 1..Len(trajectories) :
                 LET n == trajectories[i].name
                     N == Len(trajectories[i].steps)
                 IN  IF Failed(n)
                     THEN n \notin DOMAIN tree
                     ELSE /\ n \in DOMAIN tree
                          /\ DOMAIN tree[n] = { ExpectedKey(j) : j \in 0..(N - 1) }
                          /\ \A k \in DOMAIN tree[n] : tree[n][k].metadata.trajectory = n

\* the part of C4 that holds of every step of the program
C4_Step ==
    /\ (pc = "traj_except" /\ exc = "SamplingFailure" /\ exc' # "KeyboardInterrupt"
        /\ pc' # pc) =>
          /\ object_data' = object_data
          /\ ti' = ti + 1
          /\ pc' = "traj_loop"
    /\ (Collecting /\ exc' # "KeyboardInterrupt" /\ returned' = None) =>
          \A n \in DOMAIN object_data :
             n \in DOMAIN object_data' /\ object_data'[n] = object_data[n]
    /\ (pc = "traj_return" /\ pc' = "traj_loop" /\ trajectory_data # EmptyDict) =>
          object_data'[trajectories[ti].name] = trajectory_data
    /\ (returned = None /\ returned' # None /\ trajectories # << >>) =>
          returned'[1][args.object] = object_data

\* C4: a trajectory whose sampling failed leaves no record in the session tree,
\* the loop continues with the next trajectory of the library, and every
\* trajectory that completed (before or after it) is in the returned tree with
\* all its records, as they were when it completed.
C4_FailedTrajectorySkipped == [](C4_Returned) /\ [][C4_Step]_vars

C4_Witness ==
    /\ returned # None
    /\ Len(trajectories) >= 2
    /\ FailedWith(trajectories[1].name, "SamplingFailure")
    /\ trajectories[2].name \in DOMAIN returned[1][args.object]

\* C5: when the loaded library has no trajectory for the object,
\* collect_calibration_data returns {object: {}} in one step that raises
\* nothing, commands no motion and reads no sensor.
C5_AbsentObjectTouchesNothing ==
    [][ (pc = "constructed" /\ ~args.dry_run
         /\ Trajectories(trajectory_config, args.object) = << >>) =>
          /\ returned' = Some(args.object :> EmptyDict)
          /\ exc' = ""
          /\ pc' = "cleanup"
          /\ UNCHANGED << robotv, seekv, samplev >> ]_vars

C5_Witness ==
    /\ pc = "cleanup"
    /\ cleanup_calls = 0
    /\ Trajectories(trajectory_config, args.object) = << >>
    /\ returned = Some(args.object :> EmptyDict)

\* C6: a session tree without any step record is never merged into the store:
\* every tree save_calibration_data has written holds at least one record.
C6_NoRecordsNoWrite ==
    \A i \in DOMAIN merged : KeyPaths(merged[i]) # {}

\* C7: after tree A was merged into an absent store and then tree B, with key
\* paths disjoint from A's, the store's key paths are exactly those of A and B
\* and each maps to the value it has in A or in B.
C7_DisjointMergeIsUnion ==
    (Len(merged) = 2 /\ KeyPaths(merged[1]) \cap KeyPaths(merged[2]) = {}) =>
        /\ KeyPaths(Store) = KeyPaths(merged[1]) \cup KeyPaths(merged[2])
        /\ \A p \in KeyPaths(merged[1]) : At(Store, p) = At(merged[1], p)
        /\ \A p \in KeyPaths(merged[2]) : At(Store, p) = At(merged[2], p)

\* A and B are disjoint, share a trajectory and differ in its step keys
C7_Witness ==
    /\ Len(merged) = 2
    /\ KeyPaths(merged[1]) \cap KeyPaths(merged[2]) = {}
    /\ \E a \in KeyPaths(merged[1]), b \in KeyPaths(merged[2]) :
         a[1] = b[1] /\ a[2] = b[2] /\ a[3] # b[3]
    /\ \E a \in KeyPaths(merged[1]), b \in KeyPaths(merged[2]) :
         a[1] = b[1] /\ a[2] # b[2]

\* C8: a save puts the new record at every key path of the session tree, warns
\* for exactly the paths that already existed in the store, and leaves every
\* other key path of the store with its previous value.
C8_OverwriteOnlyCollisions ==
    [][ merged' # merged =>
          LET new == calibration_data
          IN  /\ \A p \in KeyPaths(new) :
                   p \in KeyPaths(Store') /\ At(Store', p) = At(new, p)
              /\ overwrite_warnings' =
                   overwrite_warnings \cup (KeyPaths(Store) \cap KeyPaths(new))
              /\ \A p \in KeyPaths(Store) \ KeyPaths(new) :
                   p \in KeyPaths(Store') /\ At(Store', p) = At(Store, p)
              /\ KeyPaths(Store') = KeyPaths(Store) \cup KeyPaths(new) ]_vars

\* a save has overwritten a path, added a new one and kept a sibling
C8_Witness ==
    /\ pc = "cleanup_release"
    /\ overwrite_warnings # {}
    /\ KeyPaths(calibration_data) \ overwrite_warnings # {}
    /\ \E p \in KeyPaths(Store) \ KeyPaths(calibration_data),
          q \in overwrite_warnings : p[1] = q[1] /\ p[2] = q[2]

\* C9: no step of any session removes a key path from the persistent store.
C9_StoreOnlyGrows ==
    [][ KeyPaths(Store) \subseteq KeyPaths(Store') ]_vars

\* a second session has saved and paths of the first alone are still stored
C9_Witness ==
    /\ Len(merged) = 2
    /\ KeyPaths(merged[1]) \ KeyPaths(merged[2]) # {}
    /\ KeyPaths(merged[2]) # {}
    /\ KeyPaths(merged[1]) \subseteq KeyPaths(Store)

\* C10: cleanup() has been called exactly once when the program is past the
\* entry of teardown (on the dry run, after a normal return and after an
\* exception) and never before; main does not finish without it.
C10_CleanupExactlyOnce ==
    cleanup_calls = IF CleanupEntered THEN 1 ELSE 0

\* main has finished after an exception unwound the collection
C10_Witness ==
    /\ pc = "done"
    /\ exc = "KeyboardInterrupt"
    /\ cleanup_calls = 1

\* the z of the absolute safe position of the teardown
SafePositionZ == pose0[3] + Max(safe_offset_mm, 5000)

\* C11: teardown runs in a fixed order. It first commands the move to the
\* absolute safe position, whose z is pose0 z + max(safe_offset_mm, 50 mm)
\* whatever z_cont is; the save step is taken only with the robot at rest at
\* that height and with sensor and motor still on; the tactile sensor is
\* released only after the save step; the motor goes off only after the
\* release, and main is finished with it.
C11_Step ==
    /\ (pc = "cleanup" /\ pc' \notin { "cleanup", "crashed" })
         => /\ target' = << pose[1], pose[2], SafePositionZ >>
            /\ moving'
            /\ pc' = "wait" /\ ret' = "cleanup_save"
    /\ (pc = "cleanup_save" /\ pc' # "cleanup_save")
         => /\ pose[3] = SafePositionZ
            /\ ~moving
            /\ sensor_open /\ motor_on
            /\ pc' \in { "cleanup_release", "crashed" }
    /\ (merged' # merged \/ storage_file' # storage_file) => pc = "cleanup_save"
    /\ (sensor_open /\ ~sensor_open')
         => pc = "cleanup_release" /\ motor_on /\ pc' = "cleanup_motor"
    /\ (motor_on /\ ~motor_on') => ~sensor_open /\ pc' = "done"

C11_TeardownOrder == [][C11_Step]_vars

\* a session that found a contact height and saved records has finished its
\* teardown at the absolute safe position, which is not the safe height over
\* the contact surface
C11_Witness ==
    /\ pc = "done"
    /\ z_cont # None
    /\ merged # << >>
    /\ pose[3] = SafePositionZ
    /\ z_cont[1] + safe_offset_mm # SafePositionZ
    /\ ~sensor_open /\ ~motor_on

\* no robot or sensor has been connected, powered or moved
HardwareUntouched ==
    /\ ~motor_on
    /\ ~sensor_open
    /\ ~moving
    /\ pose = pose0_init /\ target = pose0_init
    /\ velocity = 0

\* the object given on the command line has no usable entry in the library
NoLibraryEntry == Trajectories(load_trajectory_config(traj_file), args.object) = << >>

C13_DryRunNoMotionNoSampleNoWrite ==
    args.dry_run
        => /\ pose = pose0_init /\ target = pose0_init /\ ~moving
           /\ fz = None /\ fz_current = None
           /\ marker_disp = None /\ force_data_list = << >>
           /\ merged = << >>

\* the trajectory the loop is about to execute has an empty step list
AtEmptyTrajectory ==
    /\ pc = "traj_loop"
    /\ ti <= Len(trajectories)
    /\ trajectories[ti].steps = << >>

\* C14: executing a trajectory with an empty step list returns an empty
\* mapping without touching the robot: the step that executes it commands no
\* target (no safe-height move, no seek, no step motion), changes neither
\* pose nor speed, reads no sensor, leaves z_cont alone, and nothing is
\* stored for the trajectory.
C14_Step ==
    AtEmptyTrajectory
        => /\ UNCHANGED << robotv, seekv, samplev, z_cont, trajectory_data >>
           /\ trajectory_data = EmptyDict
           /\ \/ pc' = "traj_loop" /\ ti' = ti + 1 /\ UNCHANGED object_data
              \/ pc' = "cleanup" /\ exc' = "KeyboardInterrupt"

C14_EmptyStepListTouchesNothing == [][C14_Step]_vars

\* the loop is past an empty first trajectory with the arm where __init__
\* left it
C14_Witness ==
    /\ pc = "traj_loop"
    /\ ti = 2
    /\ trajectories[1].steps = << >>
    /\ pose = pose0 /\ target = pose0 /\ ~moving
    /\ z_cont = None
    /\ object_data = EmptyDict

\* the positions inside the body of _execute_trajectory (lines 353-384)
ExecutorPcs ==
    { "seek_start", "seek_setvel", "seek_safety", "seek_contact", "seek_down",
      "seek_restore", "step_loop", "sample_tactile", "sample_force", "traj_return" }

InExecutor ==
    \/ pc \in ExecutorPcs
    \/ pc = "wait" /\ ret \in ExecutorPcs

\* C15: once a trajectory with an empty step list has been executed without
\* failing, the robot has gone through safe height, contact seek and safe
\* height again: a contact height is known and the arm rests at the safe
\* height above it, while no record was taken for the trajectory.
C15_EmptyStepListStillSeeks ==
    \A i \in 1..Len(trajectories) :
        (pc = "traj_loop" /\ ti = i + 1 /\ trajectories[i].steps = << >>
            /\ ~Failed(trajectories[i].name))
        => /\ z_cont # None
           /\ pose[3] = z_cont[1] + safe_offset_mm
           /\ trajectories[i].name \notin DOMAIN object_data

\* C15 (amended): a trajectory with an empty step list returns an empty
\* mapping at once. The body of the executor (move to the safe height,
\* contact seek, step loop, final move to the safe height) never runs for
\* it, it never fails, and it contributes no entry to the object's records.
C15_EmptyStepListReturnsAtOnce ==
    /\ InExecutor => trajectories[ti].steps # << >>
    /\ pc = "traj_except" => trajectories[ti].steps # << >>
    /\ \A i \in 1..Len(trajectories) :
          trajectories[i].steps = << >>
            => /\ ~Failed(trajectories[i].name)
               /\ trajectories[i].name \notin DOMAIN object_data
               /\ returned # None
                    => trajectories[i].name \notin DOMAIN returned[1][args.object]

\* collection has returned after an empty last trajectory: the records hold
\* the one-step trajectory only and the arm rests where that one left it
C15_Witness ==
    /\ pc = "cleanup"
    /\ returned # None
    /\ Len(trajectories) = 2
    /\ trajectories[2].steps = << >>
    /\ DOMAIN returned[1][args.object] = { "push" }
    /\ z_cont # None
    /\ pose[3] = z_cont[1] + safe_offset_mm

\* the storage file cannot be read as a tree of dicts
Misshapen(file) ==
    \/ file.kind \in { "unreadable", "notdict" }
    \/ file.kind = "pickle" /\ file.bad # {}

\* C16: a save that finds the store unreadable or misshapen (the load raises,
\* the top level is not a mapping, or the value of an object or of a
\* trajectory is not a mapping) completes without raising and writes the
\* session tree: afterwards the store is a mapping that holds every record of
\* the session, and the teardown goes on to the release of the sensor.
C16_Step ==
    (pc = "cleanup_save" /\ calibration_data # EmptyDict /\ Misshapen(storage_file))
        => /\ pc' = "cleanup_release"
           /\ exc' = exc
           /\ storage_file'.kind = "pickle"
           /\ merged' = Append(merged, calibration_data)
           /\ \A q \in KeyPaths(calibration_data) :
                 /\ q \in KeyPaths(load_storage(storage_file'))
                 /\ At(load_storage(storage_file'), q) = At(calibration_data, q)

C16_MisshapenStoreIsNoPriorData == [][C16_Step]_vars

\* the value the collector uses for option k: the attribute __init__ derives
\* with .get (lines 107-110, 157) or the item config[k] read at its use
\* (lines 293, 300, 322); None when that read raises KeyError
UsedOption(k) ==
    CASE k = "step_settle_time"  -> Some(step_settle_time)
      [] k = "safe_offset_mm"    -> Some(safe_offset_mm)
      [] k = "frame_interval"    -> Some(frame_interval)
      [] k = "data_frames"       -> Some(data_frames)
      [] k = "contact_threshold" -> Some(cont_th)
      [] OTHER -> IF k \in DOMAIN config THEN Some(config[k]) ELSE None

\* C17: once the collector is constructed, every recognised option has a
\* value; an option the supplied config file lacks has the value it has when
\* no config file is given (the default of _get_default_config); no contact
\* seek fails with a KeyError for a missing option.
C17_DefaultsForMissingKeys ==
    pc \notin { "main", "exit" }
        => /\ \A k \in ConfigKeys :
                k \notin DOMAIN config => UsedOption(k) = Some(get_default_config[k])
           /\ exc # "KeyError"
           /\ \A i \in 1..Len(trajectories) : ~FailedWith(trajectories[i].name, "KeyError")

\* C18: a contact seek that ends without the contact threshold having been
\* crossed (here: the driver raises during the descent) is a fatal failure:
\* the exception is not handled by the per-trajectory handler, and once it
\* has happened the session is in its teardown, no further trajectory runs.
C18_ContactNotFoundIsFatal ==
    /\ ~(pc = "traj_except" /\ exc = "DriverFault")
    /\ \A i \in 1..Len(trajectories) :
          FailedWith(trajectories[i].name, "DriverFault") => InTeardown

\* the per-trajectory handler holds the exception of a seek that ended
\* without contact
C18_Caught == pc = "traj_except" /\ exc = "DriverFault"

C18_Step ==
    C18_Caught
        => \/ /\ pc' = "traj_loop"
              /\ ti' = ti + 1
              /\ log' = log \cup { << "error", "trajectory_failed",
                                      trajectories[ti].name, "DriverFault" >> }
              /\ UNCHANGED << z_cont, calibration_data, object_data, robotv >>
           \/ exc' = "KeyboardInterrupt"

\* C18 (amended): the loop of a contact seek is left normally only with
\* contact declared, so the "contact not found" error after the loop is never
\* raised; a seek that ends without contact ends with an exception, and that
\* exception (a driver fault during the descent) is caught by the
\* per-trajectory handler, which logs it and goes on with the next
\* trajectory: only the current trajectory is skipped.
C18_SeekFailureSkipsTrajectory ==
    /\ [](pc = "seek_restore" => is_contact /\ z_cont = Some(pose[3]))
    /\ [](exc # "ContactNotFound")
    /\ [][C18_Step]_vars

\* after a seek of the first trajectory ended with a driver fault, the second
\* trajectory has found contact
C18_Witness ==
    /\ pc = "seek_restore"
    /\ ti = 2
    /\ FailedWith(trajectories[1].name, "DriverFault")
    /\ z_cont # None

\* the positions of move_to_contact after its entry (lines 293-322)
SeekBodyPcs ==
    { "seek_setvel", "seek_safety", "seek_contact", "seek_down", "seek_restore" }

InSeekBody ==
    \/ pc \in SeekBodyPcs
    \/ pc = "wait" /\ ret \in SeekBodyPcs

\* z_cont is never null again, changes only where a seek declares contact,
\* and the safe height and the seek start of a trajectory that finds it set
\* are computed from it
C19_Reused ==
    /\ z_cont # None => z_cont' # None
    /\ z_cont' # z_cont => pc = "seek_contact" /\ pc' = "seek_restore"
    /\ (pc = "traj_loop" /\ pc' = "wait" /\ z_cont # None)
         => target' = << pose[1], pose[2], z_cont[1] + safe_offset_mm >>
    /\ (pc = "seek_start" /\ pc' = "wait" /\ z_cont # None)
         => target' = << pose[1], pose[2], z_cont[1] + 10 >>

\* a seek that found z_cont set and ends in a fault has left it as it found it
C19_FaultKeeps ==
    (InSeekBody /\ z_cont_entry # None /\ pc' = "traj_except") => z_cont = z_cont_entry

\* C19: once discovered, z_cont is never null again; its value changes only
\* when a contact seek completes successfully, a seek that ends in a fault
\* leaves it as it was on entry; every later trajectory computes its safe
\* height (z_cont + safe_offset_mm) and its seek start (z_cont + 0.1 mm) from
\* the stored value, not from the fallback.
C19_ContactHeightReused == [][C19_Reused /\ C19_FaultKeeps]_vars

\* C20: in every iteration the safety comparison comes before the contact
\* comparison: the contact comparison is reached only from the safety
\* comparison of the same iteration, with a safety reading above max_force.
\* An iteration whose safety reading is at or below max_force raises: contact
\* is not declared, z_cont is not written, and no further downward step is
\* commanded.
C20_Step ==
    /\ (pc' = "seek_contact" /\ pc # "seek_contact")
         => /\ pc = "seek_safety"
            /\ fz' # None /\ fz'[1] > config["max_force"]
    /\ (pc = "seek_contact" /\ pc' # "seek_contact")
         => fz # None /\ fz[1] > config["max_force"]
    /\ z_cont' # z_cont => pc = "seek_contact"
    /\ (exc' = "SafetyFault" /\ exc # "SafetyFault")
         => /\ pc = "seek_safety" /\ pc' = "traj_except"
            /\ << "error", "force_too_large" >> \in log'
            /\ fz_current' = None
            /\ UNCHANGED << z_cont, robotv >>
    /\ (pc = "seek_safety" /\ pc' \notin { "seek_safety", "seek_contact" })
         => UNCHANGED << z_cont, robotv >>

C20_SafetyBeforeContact == [][C20_Step]_vars

\* the second iteration of a first seek has raised the safety fault: the arm
\* is one step below the seek start and no contact height is known
C20_Witness ==
    /\ pc = "traj_except"
    /\ exc = "SafetyFault"
    /\ z_cont = None
    /\ pose[3] = SeekStartFallback[3] - 1
    /\ ~moving /\ target = pose

\* the positions of the loop of move_to_contact (lines 297-316) and the one
\* after contact was declared
SeekLoopPcs == { "seek_safety", "seek_contact", "seek_down", "seek_restore" }

InSeekLoop ==
    \/ pc \in SeekLoopPcs
    \/ pc = "wait" /\ ret \in SeekLoopPcs

\* C21: inside the loop of a contact seek the commanded z never rises: a
\* target is commanded only by the downward step, it is the current pose
\* moved by exactly -0.01 mm in z with x and y unchanged, and it lies below
\* the target commanded before; the pose itself never rises; once contact is
\* declared the seeker commands no further target.
C21_Step ==
    InSeekLoop
        => /\ target' # target
                => /\ pc = "seek_down"
                   /\ moving'
                   /\ target' = << pose[1], pose[2], pose[3] - 1 >>
                   /\ target'[3] = target[3] - 1
           /\ pose'[3] <= pose[3]
           /\ pc = "seek_restore" => UNCHANGED << target, moving, pose >>

C21_SeekDescendsOnly == [][C21_Step]_vars

\* contact was declared after two downward steps of a first seek
C21_Witness ==
    /\ pc = "seek_restore"
    /\ descents = 2
    /\ pose[3] = SeekStartFallback[3] - 2
    /\ z_cont = Some(pose[3])

\* the positions of _execute_trajectory after move_to_contact has returned
\* (lines 360-384)
StepLoopPcs == { "step_loop", "sample_tactile", "sample_force", "traj_return" }

InStepLoop ==
    \/ pc \in StepLoopPcs
    \/ pc = "wait" /\ ret \in StepLoopPcs

\* C22: from the first safety reading of a seek to the declaration of contact
\* the robot runs at approach_speed; after move_to_contact has returned the
\* robot runs at press_speed, and every step motion of a trajectory is
\* commanded at press_speed.
C22_Speeds ==
    /\ InSeekLoop => "approach_speed" \in DOMAIN config
                      /\ velocity = config["approach_speed"]
    /\ InStepLoop => "press_speed" \in DOMAIN config
                      /\ velocity = config["press_speed"]

C22_Step ==
    /\ (fz' # fz \/ fz_current' # fz_current) /\ pc \in { "seek_safety", "seek_contact" }
         => velocity = config["approach_speed"]
    /\ (pc = "seek_restore" /\ pc' = "step_loop") => velocity' = config["press_speed"]
    /\ (pc = "step_loop" /\ target' # target) => velocity = config["press_speed"]

C22_ApproachThenPressSpeed == [](C22_Speeds) /\ [][C22_Step]_vars

\* a step motion is under way at the press speed of a config file whose
\* approach speed is different
C22_Witness ==
    /\ pc = "wait" /\ ret = "sample_tactile"
    /\ moving
    /\ args.config.given
    /\ velocity = 5
    /\ config["approach_speed"] = 2

\* the z of the safe height over the contact surface, or over pose0 while no
\* contact height is known
SafeHeightZ ==
    IF z_cont # None THEN z_cont[1] + safe_offset_mm ELSE pose0[3] + safe_offset_mm

\* the step keys of the first n steps
StepKeys(n) == { StepKey(j) : j \in 0..(n - 1) }

\* C23: the operations of a trajectory with steps come in this order. The
\* trajectory begins with the move to the safe height; the seek is entered
\* only when that move is complete; the step loop is entered only from the
\* end of the seek, at step 0. Step motion i is commanded only when exactly
\* the records of steps 0..i-1 are stored, and is the delta of step i in
\* list order; the sampling of step i begins only when motion i is complete
\* and ends with the record of step i stored before motion i+1; after the
\* last record the move to the safe height follows, and only its completion
\* lets the trajectory return.
C23_Step ==
    /\ (pc = "traj_loop" /\ pc' = "wait")
         => /\ ret' = "seek_start"
            /\ target' = << pose[1], pose[2], SafeHeightZ >>
    /\ (pc' = "seek_start" /\ pc # "seek_start")
         => pc = "wait" /\ ret = "seek_start" /\ ~moving /\ pose[3] = SafeHeightZ
    /\ (pc' = "step_loop" /\ pc # "step_loop")
         => \/ pc = "seek_restore" /\ idx' = 0 /\ trajectory_data' = EmptyDict
            \/ /\ pc = "sample_force"
               /\ idx' = idx + 1
               /\ DOMAIN trajectory_data' = StepKeys(idx + 1)
    /\ (pc = "step_loop" /\ pc' # "step_loop" /\ exc' = exc)
         => /\ pc' = "wait" /\ moving'
            /\ DOMAIN trajectory_data = StepKeys(idx)
            /\ IF idx < Len(steps)
               THEN /\ ret' = "sample_tactile"
                    /\ target' = << pose[1] + steps[idx + 1].x,
                                    pose[2] + steps[idx + 1].y,
                                    pose[3] + steps[idx + 1].z >>
               ELSE /\ ret' = "traj_return"
                    /\ target' = << pose[1], pose[2], SafeHeightZ >>
    /\ (pc' = "sample_tactile" /\ pc # "sample_tactile")
         => pc = "wait" /\ ret = "sample_tactile" /\ ~moving /\ pose = target
    /\ (pc' = "sample_force" /\ pc # "sample_force") => pc = "sample_tactile"
    /\ pc \in { "sample_tactile", "sample_force" }
         => /\ UNCHANGED << target, moving, pose >>
            /\ idx' = idx \/ pc' = "step_loop" \/ exc' # exc
    /\ (pc' = "traj_return" /\ pc # "traj_return")
         => /\ pc = "wait" /\ ret = "traj_return" /\ ~moving
            /\ pose[3] = SafeHeightZ
            /\ idx = Len(steps)
            /\ DOMAIN trajectory_data = StepKeys(Len(steps))

C23_TrajectoryOrder == [][C23_Step]_vars

\* a trajectory of two steps is about to return: both records are stored and
\* the arm is back at the safe height
C23_Witness ==
    /\ pc = "traj_return"
    /\ Len(steps) = 2
    /\ DOMAIN trajectory_data = { StepKey(0), StepKey(1) }
    /\ pose[3] = SafeHeightZ
    /\ ~moving

\* the sampling window of a step is open (lines 388-394)
Sampling == pc \in { "sample_tactile", "sample_force" }

\* C24: motion and sampling never overlap. While the sampling window of a
\* step is open the busy flag is idle and the arm rests at the commanded
\* target; every tactile or force read is made in such a state; the window
\* is entered only by the poll that observed the flag idle; no motion command
\* is issued before the window is closed.
C24_Idle == Sampling => ~moving /\ pose = target

C24_Step ==
    /\ (marker_disp' # marker_disp /\ marker_disp' # None) => Sampling /\ ~moving
    /\ Len(force_data_list') > Len(force_data_list) => Sampling /\ ~moving
    /\ (Sampling' /\ ~Sampling) => pc = "wait" /\ ~moving
    /\ Sampling => UNCHANGED << target, moving, pose >>

C24_NoMotionWhileSampling == [](C24_Idle) /\ [][C24_Step]_vars

\* a force frame has been read in the window of the second step, the arm at
\* rest where that step's motion took it
C24_Witness ==
    /\ pc = "sample_force"
    /\ idx = 1
    /\ Len(force_data_list) >= 1
    /\ ~moving
    /\ pose = target

\* the steps of the object's trajectory called name
StepsOf(name) ==
    trajectories[CHOOSE i \in 1..Len(trajectories) : trajectories[i].name = name].steps

\* the record stored under key k of trajectory name describes the step of
\* that trajectory at the index the key stands for
DescribesItsStep(name, k, rec) ==
    \E j \in 0..(Len(StepsOf(name)) - 1) :
        /\ k = StepKey(j)
        /\ rec.metadata.trajectory = name
        /\ rec.metadata.step_index = j
        /\ rec.metadata.commanded_delta_mm =
             << StepsOf(name)[j + 1].x, StepsOf(name)[j + 1].y, StepsOf(name)[j + 1].z >>

\* every record of the trajectory being executed and of the trajectories
\* already collected describes its own step
C25_Metadata ==
    /\ \A k \in DOMAIN trajectory_data :
          DescribesItsStep(trajectories[ti].name, k, trajectory_data[k])
    /\ \A n \in DOMAIN object_data : \A k \in DOMAIN object_data[n] :
          DescribesItsStep(n, k, object_data[n][k])
    /\ \A q \in KeyPaths(calibration_data) :
          DescribesItsStep(q[2], q[3], At(calibration_data, q))

\* the force frames of a window start empty, grow by one read at a time, and
\* the record stored at the end of the window holds the float32 mean of
\* exactly the data_frames frames read in it
C25_Step ==
    /\ (pc = "sample_tactile" /\ pc' = "sample_force") => force_data_list' = << >>
    /\ (pc = "sample_force" /\ pc' = "sample_force")
         => /\ Len(force_data_list') = Len(force_data_list) + 1
            /\ SubSeq(force_data_list', 1, Len(force_data_list)) = force_data_list
            /\ force_data_list'[Len(force_data_list')] \in SampleForces
    /\ (pc = "sample_force" /\ pc' = "step_loop")
         => /\ Len(force_data_list) = data_frames
            /\ DOMAIN trajectory_data' = DOMAIN trajectory_data \cup { StepKey(idx) }
            /\ trajectory_data'[StepKey(idx)].force_xyz =
                 astype_float32(np_mean(force_data_list))
            /\ \A k \in DOMAIN trajectory_data : trajectory_data'[k] = trajectory_data[k]

\* C25: each step record's metadata names the trajectory being executed and
\* carries the (dx, dy, dz) of the trajectory step at the record's index; its
\* force value is computed only from the force frames read in that step's
\* own sampling window.
C25_RecordDescribesItsStep == [](C25_Metadata) /\ [][C25_Step]_vars

\* push of cube, two steps of (0, 0, -1 mm), one frame per step: two records,
\* both with that delta, each holding its own single sample
C25_Witness ==
    /\ pc = "cleanup"
    /\ data_frames = 1
    /\ "cube" \in DOMAIN calibration_data
    /\ "push" \in DOMAIN calibration_data["cube"]
    /\ DOMAIN calibration_data["cube"]["push"] = { StepKey(0), StepKey(1) }
    /\ \A k \in { StepKey(0), StepKey(1) } :
          calibration_data["cube"]["push"][k].metadata.commanded_delta_mm = << 0, 0, -100 >>
    /\ \A k \in { StepKey(0), StepKey(1) } :
          calibration_data["cube"]["push"][k].force_xyz
            \in { astype_float32(f) : f \in SampleForces }

\* the sampler's error message of line 408
SamplingLogged == << "error", "step_sampling_failed" >>

\* within one call of the sampler: before the tactile read nothing has been
\* read; during the force reads the tactile frame is there and at most
\* data_frames frames have been read
C26_Window ==
    /\ pc = "sample_tactile" => marker_disp = None /\ force_data_list = << >>
    /\ pc = "sample_force" => marker_disp # None /\ Len(force_data_list) <= data_frames
    /\ ~Sampling => marker_disp = None /\ force_data_list = << >>

C26_Step ==
    /\ (pc = "sample_force" /\ pc' = "sample_force")
         => /\ marker_disp' = marker_disp
            /\ Len(force_data_list') = Len(force_data_list) + 1
    /\ (pc = "sample_force" /\ pc' = "step_loop")
         => /\ Len(force_data_list) = data_frames
            /\ trajectory_data'[StepKey(idx)].marker_displacement
                 = astype_float32(marker_disp[1])
    /\ (exc' = "SamplingFailure" /\ exc # "SamplingFailure")
         => /\ Sampling
            /\ pc' = "traj_except"
            /\ SamplingLogged \in log'
            /\ trajectory_data' = EmptyDict
            /\ marker_disp' = None /\ force_data_list' = << >>
    /\ (SamplingLogged \in log' /\ SamplingLogged \notin log)
         => exc' = "SamplingFailure" /\ pc' = "traj_except"
    /\ (Sampling /\ exc' = exc /\ pc' # pc)
         => \/ pc = "sample_tactile" /\ pc' = "sample_force"
            \/ pc = "sample_force" /\ pc' = "step_loop"

\* C26: one call of the step sampler reads the tactile field once, before
\* any force read, and the force stream exactly data_frames times before it
\* returns a record; a failing read is logged and re-raised to the caller:
\* the read is not retried, the window is abandoned and no record is returned.
C26_SamplerReads == [](C26_Window) /\ [][C26_Step]_vars

\* a read of a two-frame sampling window failed: the per-trajectory handler
\* holds the exception and nothing of the window is left
C26_Witness ==
    /\ pc = "traj_except"
    /\ exc = "SamplingFailure"
    /\ SamplingLogged \in log
    /\ data_frames = 2
    /\ marker_disp = None
    /\ trajectory_data = EmptyDict

\* lines 202-205: a step list written as a list of {x,y,z} objects
AsObjects(step_list) ==
    JList([i \in DOMAIN step_list |->
             JDict(<< KV("x", Num(step_list[i].x)), KV("y", Num(step_list[i].y)),
                      KV("z", Num(step_list[i].z)) >>)])

\* lines 206-208: the same step list written as a list of 3-element lists
AsTriples(step_list) ==
    JList([i \in DOMAIN step_list |->
             JList(<< Num(step_list[i].x), Num(step_list[i].y), Num(step_list[i].z) >>)])

\* lines 210-215: the same step list written as parallel x/y/z sequences
AsParallel(step_list) ==
    JDict(<< KV("x", [i \in DOMAIN step_list |-> Num(step_list[i].x)]),
             KV("y", [i \in DOMAIN step_list |-> Num(step_list[i].y)]),
             KV("z", [i \in DOMAIN step_list |-> Num(step_list[i].z)]) >>)

\* C27: once main is past the construction the loader has returned a library
\* (no entry of the file, however malformed, makes it raise); the library is
\* the normalisation of the file, the three shapes of every step list in it
\* normalise to that step list, it has no trajectory without steps and no
\* object without trajectories
C27_LoaderNormalisesShapes ==
    pc # "main" =>
        /\ pc = "constructed"
        /\ exc = ""
        /\ trajectory_config = load_trajectory_config(traj_file)
        /\ \A i \in DOMAIN trajectory_config :
              /\ trajectory_config[i].trajs # << >>
              /\ \A j \in DOMAIN trajectory_config[i].trajs :
                    LET step_list == trajectory_config[i].trajs[j].steps
                    IN  /\ step_list # << >>
                        /\ NormalizeSteps(AsObjects(step_list)) = step_list
                        /\ NormalizeSteps(AsTriples(step_list)) = step_list
                        /\ NormalizeSteps(AsParallel(step_list)) = step_list

C28_Step ==
    /\ (pc = "wait" /\ moving /\ pc' # "wait") =>
          exc' = "KeyboardInterrupt" /\ pc' = "cleanup"
    /\ (pc = "wait" /\ moving /\ pc' = "wait") => ret' = ret /\ target' = target
    /\ (pc = "wait" /\ pc' # "wait" /\ exc' # "KeyboardInterrupt") =>
          ~moving /\ pc' = ret /\ pose = target /\ UNCHANGED robotv

DescentPcs == { "seek_safety", "seek_contact", "seek_down" }

InDescent ==
    \/ pc \in DescentPcs
    \/ pc = "wait" /\ ret \in DescentPcs

C29_Step ==
    /\ (InDescent /\ ~InDescent') =>
          \/ /\ pc = "seek_contact"
             /\ pc' = "seek_restore"
             /\ is_contact'
             /\ z_cont' = Some(pose[3])
          \/ /\ pc = "seek_safety"
             /\ exc' = "SafetyFault"
             /\ "max_force" \in DOMAIN config
          \/ /\ pc = "seek_safety"
             /\ exc' = "KeyError"
             /\ "max_force" \notin DOMAIN config
          \/ /\ pc = "seek_down"
             /\ exc' = "DriverFault"
          \/ exc' = "KeyboardInterrupt"
    /\ (pc = "seek_contact" /\ pc' = "seek_down") =>
          fz_current'[1] > cont_th /\ UNCHANGED << z_cont, descents >>
    /\ (pc = "seek_down" /\ pc' = "wait") =>
          /\ descents' = descents + 1
          /\ target' = << pose[1], pose[2], pose[3] - 1 >>
          /\ ret' = "seek_safety"

C30_Empty ==
    /\ Collecting => calibration_data = EmptyDict
    /\ exc = "KeyboardInterrupt" => calibration_data = EmptyDict /\ merged = << >>

C30_Step ==
    /\ calibration_data' # calibration_data =>
          \/ /\ pc = "traj_loop"
             /\ ti > Len(trajectories)
             /\ calibration_data' = DictSet(EmptyDict, args.object, object_data)
             /\ pc' = "cleanup"
          \/ /\ pc = "constructed"
             /\ trajectories = << >>
             /\ calibration_data' = DictSet(EmptyDict, args.object, EmptyDict)
    /\ (exc' = "KeyboardInterrupt" /\ exc # "KeyboardInterrupt") =>
          Collecting /\ pc' = "cleanup" /\ object_data' = EmptyDict
    /\ exc = "KeyboardInterrupt" =>
          (exc' = exc \/ pc' = "crashed") /\ UNCHANGED << storage_file, merged >>

\* C30: self.calibration_data is written only where the loop over the
\* object's trajectories has ended (or the object has none); while the loop
\* runs it is empty, so an interrupt that strikes then drops object_data, the
\* teardown finds an empty session tree and the store is left as it was
C30_SessionTreeFilledAfterLoop == [](C30_Empty) /\ [][C30_Step]_vars

\* between the first and the second trajectory: the first one's records sit
\* in object_data, the session tree is still empty
C30_Witness ==
    /\ pc = "traj_loop"
    /\ ti = 2
    /\ ti <= Len(trajectories)
    /\ object_data # EmptyDict
    /\ calibration_data = EmptyDict

\* C31: whenever a run of cleanup has ended, by returning or by an exception
\* of its safe-position move or of its save, the tactile sensor has been
\* released and the motor-off signal has been sent
C31_TeardownAlwaysReleases ==
    (cleanup_calls > 0 /\ pc \in { "done", "crashed" }) => ~sensor_open /\ ~motor_on

\* line 301: a seek of this run has ended with the safety fault
SafetyFaulted == << "error", "force_too_large" >> \in log

\* where the moves to the safe height (lines 355, 380), to the seek start
\* (lines 288, 290) and to the teardown safe position (line 416) return to
RecoveryMoves == { "seek_start", "traj_return", "seek_setvel", "cleanup_save" }

\* C32: once a seek has ended with the safety fault, every move to the safe
\* height, to a seek start or to the teardown safe position is commanded
\* with the velocity at the fast speed (20) or at press_speed, never at the
\* approach_speed the failed seek left behind
C32_SpeedRestoredAfterSafetyFault ==
    [][(SafetyFaulted /\ pc # "wait" /\ pc' = "wait" /\ ret' \in RecoveryMoves) =>
          \/ velocity' = 20
          \/ "press_speed" \in DOMAIN config /\ velocity' = config["press_speed"]]_vars

\* the session tree about to be saved is the one the previous save merged
SameTreeAgain == merged # << >> /\ calibration_data = merged[Len(merged)]

C33_Step ==
    /\ merged' # merged =>
          /\ merged' = Append(merged, calibration_data)
          /\ calibration_data' = calibration_data
    /\ (merged' # merged /\ SameTreeAgain) =>
          /\ Store' = Store
          /\ KeyPaths(Store') = KeyPaths(Store)
          /\ \A p \in KeyPaths(calibration_data) : At(Store', p) = At(calibration_data, p)
          /\ overwrite_warnings' = overwrite_warnings \cup KeyPaths(calibration_data)
          /\ log' = log

\* C33: a save of the session tree the previous save has just merged leaves
\* the store exactly as it was (same key paths, same values), warns of an
\* overwrite for every step key of the tree and for nothing else, and logs
\* nothing more; no save changes the in-memory session tree
C33_SecondMergeChangesNothing == [][C33_Step]_vars

\* the same tree with records has been saved twice in a row: the second save
\* warned for each of its key paths
C33_Witness ==
    /\ pc = "cleanup_release"
    /\ Len(merged) = 2
    /\ merged[1] = merged[2]
    /\ Cardinality(KeyPaths(merged[2])) >= 2
    /\ overwrite_warnings = KeyPaths(merged[2])
    /\ calibration_data = merged[2]
====
